---- MODULE Spec2Model ----
(***************************************************************************)
(* Agentic Grok service (services/agentic-grok/agentic_service.py):        *)
(* the streaming orchestrator AgenticOrchestrator.stream_response, the     *)
(* memory_add tool handler of execute_custom_tool and the SQLite memory    *)
(* store behind it and behind the POST /api/agentic/memory/add endpoint.   *)
(*                                                                         *)
(* Python str values that the code manipulates (texts, user ids, raw       *)
(* argument strings) are sequences of one-character strings; tags that are *)
(* only compared with literals (event types, tool names, exception names)  *)
(* are TLA+ strings. Timestamps of events are left out: nothing reads them.*)
(***************************************************************************)
EXTENDS Integers, Sequences, FiniteSets, TLC

\* ------------------------------------------------------------------ bounds
MaxChunks == 2          \* chunks one backend stream delivers at most
MaxCap == 1             \* largest configured AGENTIC_MEMORY_MAX_PER_CHAT tried
MaxClock == 1           \* seconds the database's clock advances at most
MaxHistory == 3         \* turns of conversation_history at most
MaxPosts == 2           \* POST /api/agentic/memory/add requests served at most

\* the default of os.getenv("AGENTIC_MEMORY_MAX_PER_CHAT", "3")
DefaultMaxWrites == 3

Streams == {1, 2}
SoloStreams == {1}

\* ------------------------------------------------------------ str helpers
Whitespace == {" "}

RECURSIVE LStrip(_)
LStrip(t) == IF t # <<>> /\ Head(t) \in Whitespace THEN LStrip(Tail(t)) ELSE t

RECURSIVE RStrip(_)
RStrip(t) ==
    IF t # <<>> /\ t[Len(t)] \in Whitespace THEN RStrip(SubSeq(t, 1, Len(t) - 1)) ELSE t

\* str.strip()
Strip(t) == RStrip(LStrip(t))

\* ------------------------------------------------- dicts and JSON values
EmptyDict == [k \in {} |-> TRUE]

\* dict.get(k) followed by `or dflt`: a missing key gives None, and None and
\* the empty str are both falsy
GetOr(d, k, dflt) == IF k \in DOMAIN d /\ d[k] # <<>> THEN d[k] ELSE dflt

\* bool(dict.get(k))
Truthy(d, k) == k \in DOMAIN d /\ d[k] # <<>>

\* A decoded JSON value: an object (dict) or an array of n items.
JObject(d) == [jtype |-> "object", dict |-> d, n |-> 0]
JArray(n) == [jtype |-> "array", dict |-> EmptyDict, n |-> n]
JNull == [jtype |-> "null", dict |-> EmptyDict, n |-> 0]

\* tool_call.function.arguments as the backend delivers it: an object that is
\* already decoded, a str holding the JSON text of a value, or a str that is
\* not JSON (chars)
ArgsDict(d) == [form |-> "dict", value |-> JObject(d), chars |-> <<>>]
ArgsJson(v) == [form |-> "json", value |-> v, chars |-> <<>>]
ArgsText(t) == [form |-> "text", value |-> JNull, chars |-> t]

\* isinstance(args, str)
IsStr(args) == args.form # "dict"

\* json.loads(args) raises on a str that is not JSON
JsonLoadsRaises(args) == args.form = "text"
JsonLoads(args) == args.value

\* mutant: a str that is not JSON is replaced by no arguments
DecodeArgsDropsText(args) ==
    IF IsStr(args)
    THEN IF JsonLoadsRaises(args)
         THEN JObject(EmptyDict)
         ELSE JsonLoads(args)
    ELSE args.value

\* lines 423-428: the arguments the handler is called with before `or {}`
DecodeArgs(args) ==
    IF IsStr(args)
    THEN IF JsonLoadsRaises(args)
         THEN JObject([text |-> args.chars])
         ELSE JsonLoads(args)
    ELSE args.value

\* bool(v) of a decoded JSON value
JTruthy(v) ==
    CASE v.jtype = "object" -> v.dict # EmptyDict
      [] v.jtype = "array" -> v.n > 0
      [] OTHER -> FALSE

\* line 429: `args or {}`
OrEmptyDict(v) == IF JTruthy(v) THEN v ELSE JObject(EmptyDict)

\* ----------------------------------------------------- memory_add handler
Default == <<"d", "e", "f", "a", "u", "l", "t">>
TextRequired == "text is required for memory_add"
MetaKeys == {"type", "category", "date"}

\* mutant: the text is taken as it is given
AddTextUntrimmed(d) == GetOr(d, "text", <<>>)

\* line 266: text = str(arguments.get("text") or "").strip()
AddText(d) == Strip(GetOr(d, "text", <<>>))

\* line 269: user_id = str(arguments.get("user_id") or "default")
AddUserId(d) == GetOr(d, "user_id", Default)

\* lines 270-276: only the truthy type/category/date keys go into meta
AddMeta(d) == [k \in {k \in MetaKeys : Truthy(d, k)} |-> d[k]]

\* line 288: None if not meta else json.dumps(meta)
NoMetadata == [null |-> TRUE, json |-> EmptyDict]
Metadata(meta) == IF meta = EmptyDict THEN NoMetadata ELSE [null |-> FALSE, json |-> meta]

\* mutant: the lookup compares the user only
MatchingUserOnly(table, user_id, text) ==
    {i \in 1..Len(table) : table[i].user_id = user_id}

\* line 281: the rows SELECT ... WHERE user_id=? AND text=? matches
Matching(table, user_id, text) ==
    {i \in 1..Len(table) : table[i].user_id = user_id /\ table[i].text = text}

\* line 285: uuid4().hex, an id no stored row carries
NewId(table) == Len(table) + 1

\* mutant: INSERT OR REPLACE on the (user_id, text) pair
InsertRowUpsert(table, id, user_id, text, metadata, created_at) ==
    LET row == [id |-> id, user_id |-> user_id, text |-> text, metadata |-> metadata,
                created_at |-> created_at]
        same == {i \in 1..Len(table) : table[i].user_id = user_id /\ table[i].text = text}
    IN IF same = {} THEN Append(table, row)
       ELSE [table EXCEPT ![CHOOSE i \in same : TRUE] = row]

\* lines 286-289 / 562-565: INSERT INTO memories; created_at is the column's
\* default, the database's clock in whole seconds (line 537)
InsertRow(table, id, user_id, text, metadata, created_at) ==
    Append(table, [id |-> id, user_id |-> user_id, text |-> text, metadata |-> metadata,
                   created_at |-> created_at])

\* the payloads the handler returns
DedupResult(id) == [success |-> TRUE, id |-> id, dedup |-> TRUE]
AddedResult(id) == [success |-> TRUE, id |-> id]
ErrorResult(msg) == [error |-> msg]

\* line 430: result.get("success")
Succeeded(result) == "success" \in DOMAIN result /\ result.success

\* --------------------------------------------------------------- backend
Texts == {<<"a">>, <<"b">>}

\* the tool calls one chunk of the full alphabet may announce
ToolCalls ==
    { [name |-> "memory_add", arguments |-> ArgsJson(JObject([text |-> <<"a">>]))],
      [name |-> "memory_add", arguments |-> ArgsJson(JObject([text |-> <<" ">>]))],
      [name |-> "memory_add", arguments |-> ArgsJson(JArray(1))],
      [name |-> "store_memory", arguments |-> ArgsText(<<"b">>)],
      [name |-> "web_search", arguments |-> ArgsJson(JObject(EmptyDict))] }

AddA == [name |-> "memory_add", arguments |-> ArgsJson(JObject([text |-> <<"a">>]))]
AddBlank == [name |-> "memory_add", arguments |-> ArgsJson(JObject([text |-> <<" ">>]))]
WebSearch == [name |-> "web_search", arguments |-> ArgsJson(JObject(EmptyDict))]

\* one (response, chunk) pair of chat.stream(): the usage snapshot of the
\* response so far and the chunk's tool calls and text
Chunks(callseqs) ==
    [reasoning_tokens : {0, 1}, tool_calls : callseqs, content : {<<>>} \cup Texts]

\* the full alphabet: every chunk with at most one tool call, and three chunks
\* that announce two
SoloChunks ==
    Chunks({<<>>} \cup {<<c>> : c \in ToolCalls})
        \cup [reasoning_tokens : {1},
              tool_calls : {<<AddA, AddA>>, <<AddBlank, AddA>>, <<WebSearch, AddA>>},
              content : {<<"b">>}]

\* the alphabet of the sessions that share the store: every chunk reports
\* reasoning progress, announces a memory write of one pair and carries text
U1 == <<"u", "1">>
StoreChunks ==
    [reasoning_tokens : {1},
     tool_calls : {<<[name |-> "memory_add",
                      arguments |-> ArgsDict([text |-> <<"a">>, user_id |-> U1])]>>},
     content : {<<"a">>}]

\* request.conversation_history of a chat request
Histories ==
    { <<>>,
      <<[role |-> "user", content |-> <<"a">>]>>,
      <<[content |-> <<"a">>]>> }

\* what can go wrong in the store: sqlite3.connect or the SELECT raising,
\* the INSERT or the commit raising
Faults == {"none", "raise"}
NoFaults == {"none"}

\* os.environ's AGENTIC_MEMORY_MAX_PER_CHAT: unset, an integer, or text int() rejects
EnvUnset == [kind |-> "unset", n |-> 0]
EnvInt(k) == [kind |-> "int", n |-> k]
EnvText == [kind |-> "text", n |-> 0]
EnvValues == {EnvUnset, EnvText} \cup {EnvInt(k) : k \in 0..MaxCap}

\* ------------------------------------------------------------------ state
VARIABLES
    env,                  \* AGENTIC_MEMORY_MAX_PER_CHAT of the process
    memories,             \* the rows of table memories, in insertion order
    posts,                \* requests served by POST /api/agentic/memory/add
    pc,                   \* where each stream_response generator stands
    is_thinking,
    accumulated_content,
    tool_calls_made,
    max_writes,
    writes,
    response,             \* the last response pulled; bound = FALSE before the first
    chunk,                \* the chunk being processed
    idx,                  \* position in chunk.tool_calls
    pulled,               \* chunks pulled so far
    pending,              \* the row a running memory_add is about to insert
    executed,             \* ids of the tool calls handed to execute_custom_tool
    events,               \* the events yielded so far
    gen,                  \* the state of each stream_response generator object
    failed,               \* whether the session, the cap or the backend failed the stream
    now,                  \* the database's clock, in seconds
    conns,                \* connections to mem_store.db that are open
    request_user_id,      \* the user_id each stream_response call was given
    reply                 \* the last request to the store's endpoints and its response

vars == <<env, memories, posts, pc, is_thinking, accumulated_content, tool_calls_made,
          max_writes, writes, response, chunk, idx, pulled, pending, executed, events,
          gen, failed, now, reply, conns, request_user_id>>

\* what no step of a running stream assigns
fixed == <<env, posts, now, reply, request_user_id>>

locals == <<is_thinking, accumulated_content, tool_calls_made, max_writes, writes,
            response, chunk, idx, pulled, pending, executed>>

Unbound == [bound |-> FALSE, reasoning_tokens |-> 0]
NoChunk == [tool_calls |-> <<>>, content |-> <<>>]
NoPending == [user_id |-> <<>>, text |-> <<>>, metadata |-> NoMetadata]
NoReply == [op |-> "none"]

Init ==
    /\ env \in EnvValues
    /\ memories = <<>>
    /\ posts = 0
    /\ pc = [s \in Streams |-> "start"]
    /\ is_thinking = [s \in Streams |-> TRUE]
    /\ accumulated_content = [s \in Streams |-> <<>>]
    /\ tool_calls_made = [s \in Streams |-> <<>>]
    /\ max_writes = [s \in Streams |-> 0]
    /\ writes = [s \in Streams |-> 0]
    /\ response = [s \in Streams |-> Unbound]
    /\ chunk = [s \in Streams |-> NoChunk]
    /\ idx = [s \in Streams |-> 1]
    /\ pulled = [s \in Streams |-> 0]
    /\ pending = [s \in Streams |-> NoPending]
    /\ executed = [s \in Streams |-> <<>>]
    /\ events = [s \in Streams |-> <<>>]
    /\ gen = [s \in Streams |-> "created"]
    /\ failed = [s \in Streams |-> FALSE]
    /\ now = 0
    /\ reply = NoReply
    /\ conns = 0
    /\ request_user_id = [s \in Streams |-> <<>>]

\* ------------------------------------------------------------------ events
ThinkingEvent(tokens) == [type |-> "thinking", tokens |-> tokens]
ToolCallEvent(tc) ==
    [type |-> "tool_call", tool |-> tc.name, arguments |-> tc.arguments, id |-> tc.id]
ToolResultEvent(tool, result) == [type |-> "tool_result", tool |-> tool, result |-> result]
ToolErrorEvent(tool, exc) == [type |-> "tool_result", tool |-> tool, error |-> exc]
ResponseStartEvent == [type |-> "response_start"]
ContentEvent(text) == [type |-> "content", text |-> text]
CompleteEvent(content, resp, calls) ==
    [type |-> "complete", content |-> content,
     usage |-> [reasoning_tokens |-> resp.reasoning_tokens], tool_calls |-> calls]
ErrorEvent(exc) == [type |-> "error", error |-> exc]

\* mutant: conn.close() follows the last statement, with no finally clause
AfterHandlerNoFinally(n, outcome) == IF outcome = "raise" THEN n ELSE n - 1

\* lines 292-293, 568-569, 590-591, 612-613: finally: conn.close(), whether
\* the handler leaves by a return or by an exception
AfterHandler(n, outcome) == n - 1

Emit(s, evs) == events' = [events EXCEPT ![s] = @ \o evs]

\* an async generator runs only while its consumer awaits the next event: it
\* is suspended at the yield of the event it has just produced, it has
\* finished when an exception left it, and once closed it never runs again
ResumableAlways(g) == TRUE    \* mutant: the stream is a task that runs on by itself
Resumable(g) == g # "closed"
Suspends(s) ==
    gen' = [gen EXCEPT ![s] = IF pc'[s] = "raised" THEN "finished"
                              ELSE IF events'[s] # events[s] THEN "suspended"
                              ELSE "running"]

\* ------------------------------------------------ stream_response, pieces
\* line 353: msg["role"] raises KeyError on a history entry without a role
CreateChatRaises(history) == \E i \in 1..Len(history) : "role" \notin DOMAIN history[i]

\* os.getenv("AGENTIC_MEMORY_MAX_PER_CHAT", "3")
GetEnv(e) == IF e.kind = "unset" THEN EnvInt(DefaultMaxWrites) ELSE e

\* int(...) raises ValueError on text that is no integer
IntRaises(e) == e.kind = "text"

\* mutant: reasoning progress is reported in every state of the stream
EmitsThinkingAnyState(tokens, thinking) == tokens # 0

\* line 400: response.usage.reasoning_tokens and is_thinking
EmitsThinking(tokens, thinking) == tokens # 0 /\ thinking

\* mutant: the cap test is off by one
CapAllowsAtCap(name, w, m) == name \in {"memory_add", "store_memory"} /\ w <= m

\* mutant: the cap is applied to one of the two tool names only
CapAllowsAlias(name, w, m) == name = "store_memory" \/ (name = "memory_add" /\ w < m)

\* mutant: every announced call is executed while the cap allows
CapAllowsAnyTool(name, w, m) == w < m

\* line 421: the tool is a memory write and the cap is not reached
CapAllows(name, w, m) == name \in {"memory_add", "store_memory"} /\ w < m

\* mutant: the counter is never advanced
NextWritesNever(w, result) == w

\* mutant: every execution counts, whatever it returned
NextWritesAlways(w, result) == w + 1

\* line 430: writes += 1 if result.get("success") else 0
NextWrites(w, result) == w + (IF Succeeded(result) THEN 1 ELSE 0)

\* mutant: = in place of +=
AccumulateReplace(acc, text) == text

\* line 454: accumulated_content += chunk.content
Accumulate(acc, text) == acc \o text

\* mutant: the chunk's text is dealt with before its tool calls
AfterCallTextFirst(c, i) ==
    IF c.content # <<>> THEN "content"
    ELSE IF i <= Len(c.tool_calls) THEN "tool_call"
    ELSE "pull"

\* where the loop body continues once tool call i - 1 of the chunk is dealt
\* with: the next tool call, the chunk's text (line 446), or the next pull
AfterCall(c, i) ==
    IF i <= Len(c.tool_calls) THEN "tool_call"
    ELSE IF c.content # <<>> THEN "content"
    ELSE "pull"

\* --------------------------------------------------------- stream actions
\* lines 388-397: the session is built outside the try block, so a failure of
\* create_chat or chat.append leaves the generator by an exception; int() of
\* the cap is inside it
StartAs(s, users) ==
    /\ pc[s] = "start"
    /\ \E u \in users : request_user_id' = [request_user_id EXCEPT ![s] = u]
    /\ Resumable(gen[s])
    /\ \E history \in Histories :
        IF CreateChatRaises(history)
        THEN /\ pc' = [pc EXCEPT ![s] = "raised"]
             /\ failed' = [failed EXCEPT ![s] = TRUE]
             /\ UNCHANGED <<locals, events>>
        ELSE /\ is_thinking' = [is_thinking EXCEPT ![s] = TRUE]
             /\ accumulated_content' = [accumulated_content EXCEPT ![s] = <<>>]
             /\ tool_calls_made' = [tool_calls_made EXCEPT ![s] = <<>>]
             /\ writes' = [writes EXCEPT ![s] = 0]
             /\ IF IntRaises(GetEnv(env))
                THEN /\ Emit(s, <<ErrorEvent("ValueError")>>)
                     /\ pc' = [pc EXCEPT ![s] = "done"]
                     /\ failed' = [failed EXCEPT ![s] = TRUE]
                     /\ UNCHANGED max_writes
                ELSE /\ max_writes' = [max_writes EXCEPT ![s] = GetEnv(env).n]
                     /\ pc' = [pc EXCEPT ![s] = "pull"]
                     /\ UNCHANGED <<events, failed>>
             /\ UNCHANGED <<response, chunk, idx, pulled, pending, executed>>
    /\ UNCHANGED <<conns, env, posts, now, reply, memories>>
    /\ Suspends(s)

\* a request that carries no user_id (line 519: the field is optional)
NoUser == <<>>
Start(s) == StartAs(s, {NoUser})

\* mutant: the loop keeps the first response it was given
PullChunkKeepsFirst(s, C) ==
    /\ pc[s] = "pull"
    /\ Resumable(gen[s])
    /\ pulled[s] < MaxChunks
    /\ \E rc \in C :
        LET c == [tool_calls |->
                      [i \in 1..Len(rc.tool_calls) |->
                          [id |-> Len(tool_calls_made[s]) + i,
                           name |-> rc.tool_calls[i].name,
                           arguments |-> rc.tool_calls[i].arguments]],
                  content |-> rc.content]
        IN /\ response' = IF response[s].bound THEN response
                          ELSE [response EXCEPT
                                   ![s] = [bound |-> TRUE,
                                           reasoning_tokens |-> rc.reasoning_tokens]]
           /\ chunk' = [chunk EXCEPT ![s] = c]
           /\ idx' = [idx EXCEPT ![s] = 1]
           /\ pulled' = [pulled EXCEPT ![s] = @ + 1]
           /\ Emit(s, IF EmitsThinking(rc.reasoning_tokens, is_thinking[s])
                      THEN <<ThinkingEvent(rc.reasoning_tokens)>> ELSE <<>>)
           /\ pc' = [pc EXCEPT ![s] = AfterCall(c, 1)]
    /\ UNCHANGED <<conns, failed, fixed, memories,
                   is_thinking, accumulated_content, tool_calls_made,
                   max_writes, writes, pending, executed>>
    /\ Suspends(s)

\* lines 398-405: the loop pulls the next (response, chunk) and reports
\* reasoning progress
PullChunk(s, C) ==
    /\ pc[s] = "pull"
    /\ Resumable(gen[s])
    /\ pulled[s] < MaxChunks
    /\ \E rc \in C :
        LET c == [tool_calls |->
                      [i \in 1..Len(rc.tool_calls) |->
                          [id |-> Len(tool_calls_made[s]) + i,
                           name |-> rc.tool_calls[i].name,
                           arguments |-> rc.tool_calls[i].arguments]],
                  content |-> rc.content]
        IN /\ response' = [response EXCEPT
                              ![s] = [bound |-> TRUE, reasoning_tokens |-> rc.reasoning_tokens]]
           /\ chunk' = [chunk EXCEPT ![s] = c]
           /\ idx' = [idx EXCEPT ![s] = 1]
           /\ pulled' = [pulled EXCEPT ![s] = @ + 1]
           /\ Emit(s, IF EmitsThinking(rc.reasoning_tokens, is_thinking[s])
                      THEN <<ThinkingEvent(rc.reasoning_tokens)>> ELSE <<>>)
           /\ pc' = [pc EXCEPT ![s] = AfterCall(c, 1)]
    /\ UNCHANGED <<conns, failed, fixed, memories,
                   is_thinking, accumulated_content, tool_calls_made,
                   max_writes, writes, pending, executed>>
    /\ Suspends(s)

\* mutant: only the calls handed to the executor are recorded
ToolCallRecordsExecuted(s) ==
    /\ pc[s] = "tool_call"
    /\ Resumable(gen[s])
    /\ LET tc == chunk[s].tool_calls[idx[s]]
           tool_info == ToolCallEvent(tc)
       IN /\ Emit(s, <<tool_info>>)
          /\ IF CapAllows(tc.name, writes[s], max_writes[s])
             THEN /\ tool_calls_made' = [tool_calls_made EXCEPT ![s] = Append(@, tool_info)]
                  /\ pc' = [pc EXCEPT ![s] = "execute"]
                  /\ UNCHANGED idx
             ELSE /\ idx' = [idx EXCEPT ![s] = @ + 1]
                  /\ pc' = [pc EXCEPT ![s] = AfterCall(chunk[s], idx[s] + 1)]
                  /\ UNCHANGED tool_calls_made
    /\ UNCHANGED <<conns, failed, fixed, memories,
                   is_thinking, accumulated_content, max_writes, writes,
                   response, chunk, pulled, pending, executed>>
    /\ Suspends(s)

\* lines 409-421: one tool call is recorded and announced
ToolCall(s) ==
    /\ pc[s] = "tool_call"
    /\ Resumable(gen[s])
    /\ LET tc == chunk[s].tool_calls[idx[s]]
           tool_info == ToolCallEvent(tc)
       IN /\ tool_calls_made' = [tool_calls_made EXCEPT ![s] = Append(@, tool_info)]
          /\ Emit(s, <<tool_info>>)
          /\ IF CapAllows(tc.name, writes[s], max_writes[s])
             THEN /\ pc' = [pc EXCEPT ![s] = "execute"]
                  /\ UNCHANGED idx
             ELSE /\ idx' = [idx EXCEPT ![s] = @ + 1]
                  /\ pc' = [pc EXCEPT ![s] = AfterCall(chunk[s], idx[s] + 1)]
    /\ UNCHANGED <<conns, failed, fixed, memories,
                   is_thinking, accumulated_content, max_writes, writes,
                   response, chunk, pulled, pending, executed>>
    /\ Suspends(s)

\* lines 430-436: the handler returned `result`
Returned(s, result) ==
    /\ writes' = [writes EXCEPT ![s] = NextWrites(@, result)]
    /\ Emit(s, <<ToolResultEvent(chunk[s].tool_calls[idx[s]].name, result)>>)
    /\ idx' = [idx EXCEPT ![s] = @ + 1]
    /\ pc' = [pc EXCEPT ![s] = AfterCall(chunk[s], idx[s] + 1)]
    /\ pending' = [pending EXCEPT ![s] = NoPending]

\* mutant: a call that raised is tried again
RaisedRetries(s, exc) ==
    /\ Emit(s, <<ToolErrorEvent(chunk[s].tool_calls[idx[s]].name, exc)>>)
    /\ pc' = [pc EXCEPT ![s] = "execute"]
    /\ pending' = [pending EXCEPT ![s] = NoPending]
    /\ UNCHANGED <<writes, idx>>

\* mutant: a handler that raises is not caught around the call, but by the
\* stream's own handler
RaisedEndsStream(s, exc) ==
    /\ Emit(s, <<ErrorEvent(exc)>>)
    /\ pc' = [pc EXCEPT ![s] = "done"]
    /\ pending' = [pending EXCEPT ![s] = NoPending]
    /\ UNCHANGED <<writes, idx>>

\* mutant: a handler that raises is caught nowhere and leaves the generator
RaisedEscapes(s, exc) ==
    /\ Emit(s, <<>>)
    /\ pc' = [pc EXCEPT ![s] = "raised"]
    /\ pending' = [pending EXCEPT ![s] = NoPending]
    /\ UNCHANGED <<writes, idx>>

\* lines 437-443: the handler raised `exc`
Raised(s, exc) ==
    /\ Emit(s, <<ToolErrorEvent(chunk[s].tool_calls[idx[s]].name, exc)>>)
    /\ idx' = [idx EXCEPT ![s] = @ + 1]
    /\ pc' = [pc EXCEPT ![s] = AfterCall(chunk[s], idx[s] + 1)]
    /\ pending' = [pending EXCEPT ![s] = NoPending]
    /\ UNCHANGED writes

\* mutant: a write that names no user goes under the user_id of the request
ExecuteMemoryAddAsRequester(s, F) ==
    /\ pc[s] = "execute"
    /\ Resumable(gen[s])
    /\ LET tc == chunk[s].tool_calls[idx[s]]
           arguments == OrEmptyDict(DecodeArgs(tc.arguments))
           text == AddText(arguments.dict)
           user_id == GetOr(arguments.dict, "user_id",
                            IF request_user_id[s] # <<>> THEN request_user_id[s] ELSE Default)
           rows == Matching(memories, user_id, text)
       IN /\ executed' = [executed EXCEPT ![s] = Append(@, tc.id)]
          /\ IF arguments.jtype # "object"
             THEN Raised(s, "AttributeError") /\ UNCHANGED conns
             ELSE IF text = <<>>
             THEN Returned(s, ErrorResult(TextRequired)) /\ UNCHANGED conns
             ELSE \E f \in F :
                    IF f = "raise"
                    THEN /\ Raised(s, "OperationalError")
                         /\ \E connected \in BOOLEAN :
                                conns' = IF connected THEN AfterHandler(conns + 1, "raise")
                                         ELSE conns
                    ELSE IF rows # {}
                    THEN /\ \E i \in rows : Returned(s, DedupResult(memories[i].id))
                         /\ conns' = AfterHandler(conns + 1, "return")
                    ELSE /\ conns' = conns + 1
                         /\ pending' = [pending EXCEPT ![s] =
                                [user_id |-> user_id, text |-> text,
                                 metadata |-> Metadata(AddMeta(arguments.dict))]]
                         /\ pc' = [pc EXCEPT ![s] = "insert"]
                         /\ UNCHANGED <<writes, idx, events>>
    /\ UNCHANGED <<failed, fixed, memories, is_thinking, accumulated_content, tool_calls_made,
                   max_writes, response, chunk, pulled>>
    /\ Suspends(s)

\* lines 422-429 and 265-284: the arguments are decoded and the handler runs
\* up to the existence check. SELECT ... LIMIT 1 has no ORDER BY: any matching
\* row may be the one returned.
ExecuteMemoryAdd(s, F) ==
    /\ pc[s] = "execute"
    /\ Resumable(gen[s])
    /\ LET tc == chunk[s].tool_calls[idx[s]]
           arguments == OrEmptyDict(DecodeArgs(tc.arguments))
           text == AddText(arguments.dict)
           user_id == AddUserId(arguments.dict)
           rows == Matching(memories, user_id, text)
       IN /\ executed' = [executed EXCEPT ![s] = Append(@, tc.id)]
          /\ IF arguments.jtype # "object"
             THEN Raised(s, "AttributeError") /\ UNCHANGED conns
             ELSE IF text = <<>>
             THEN Returned(s, ErrorResult(TextRequired)) /\ UNCHANGED conns
             ELSE \E f \in F :
                    IF f = "raise"
                    THEN /\ Raised(s, "OperationalError")
                         /\ \E connected \in BOOLEAN :
                                conns' = IF connected THEN AfterHandler(conns + 1, "raise")
                                         ELSE conns
                    ELSE IF rows # {}
                    THEN /\ \E i \in rows : Returned(s, DedupResult(memories[i].id))
                         /\ conns' = AfterHandler(conns + 1, "return")
                    ELSE /\ conns' = conns + 1
                         /\ pending' = [pending EXCEPT ![s] =
                                [user_id |-> user_id, text |-> text,
                                 metadata |-> Metadata(AddMeta(arguments.dict))]]
                         /\ pc' = [pc EXCEPT ![s] = "insert"]
                         /\ UNCHANGED <<writes, idx, events>>
    /\ UNCHANGED <<failed, fixed, memories, is_thinking, accumulated_content, tool_calls_made,
                   max_writes, response, chunk, pulled>>
    /\ Suspends(s)

\* mutant: the insert looks for the pair again and returns the row it finds
InsertMemoryIfAbsent(s, F) ==
    /\ pc[s] = "insert"
    /\ Resumable(gen[s])
    /\ \E f \in F :
        LET rows == Matching(memories, pending[s].user_id, pending[s].text)
            mem_id == NewId(memories)
        IN IF f = "raise"
           THEN /\ Raised(s, "OperationalError")
                /\ conns' = AfterHandler(conns, "raise")
                /\ UNCHANGED memories
           ELSE IF rows # {}
           THEN /\ \E i \in rows : Returned(s, DedupResult(memories[i].id))
                /\ conns' = AfterHandler(conns, "return")
                /\ UNCHANGED memories
           ELSE /\ memories' = InsertRow(memories, mem_id, pending[s].user_id,
                                          pending[s].text, pending[s].metadata, now)
                /\ conns' = AfterHandler(conns, "return")
                /\ Returned(s, AddedResult(mem_id))
    /\ UNCHANGED <<failed, fixed, is_thinking, accumulated_content, tool_calls_made, max_writes,
                   response, chunk, pulled, executed>>
    /\ Suspends(s)

\* mutant: the insert is not committed, and closing the connection drops it
InsertMemoryUncommitted(s, F) ==
    /\ pc[s] = "insert"
    /\ Resumable(gen[s])
    /\ \E f \in F :
        IF f = "raise"
        THEN /\ Raised(s, "OperationalError")
             /\ conns' = AfterHandler(conns, "raise")
        ELSE /\ conns' = AfterHandler(conns, "return")
             /\ Returned(s, AddedResult(NewId(memories)))
    /\ UNCHANGED <<failed, fixed, memories, is_thinking, accumulated_content, tool_calls_made,
                   max_writes, response, chunk, pulled, executed>>
    /\ Suspends(s)

\* lines 285-293: the row is inserted and committed; a failure of either
\* leaves no row behind (the connection is closed without a commit)
InsertMemory(s, F) ==
    /\ pc[s] = "insert"
    /\ Resumable(gen[s])
    /\ \E f \in F :
        IF f = "raise"
        THEN /\ Raised(s, "OperationalError")
             /\ conns' = AfterHandler(conns, "raise")
             /\ UNCHANGED memories
        ELSE LET mem_id == NewId(memories)
             IN /\ memories' = InsertRow(memories, mem_id, pending[s].user_id,
                                         pending[s].text, pending[s].metadata, now)
                /\ conns' = AfterHandler(conns, "return")
                /\ Returned(s, AddedResult(mem_id))
    /\ UNCHANGED <<failed, fixed, is_thinking, accumulated_content, tool_calls_made, max_writes,
                   response, chunk, pulled, executed>>
    /\ Suspends(s)

\* mutant: is_thinking is not cleared
ResponseStartKeepsThinking(s) ==
    /\ pc[s] = "content"
    /\ Resumable(gen[s])
    /\ is_thinking[s]
    /\ Emit(s, <<ResponseStartEvent>>)
    /\ pc' = [pc EXCEPT ![s] = "append"]
    /\ UNCHANGED <<conns, failed, fixed, memories,
                   is_thinking, accumulated_content, tool_calls_made,
                   max_writes, writes, response, chunk, idx, pulled, pending, executed>>
    /\ Suspends(s)

\* mutant: the thinking phase ends without its event
ResponseStartSilent(s) ==
    /\ pc[s] = "content"
    /\ Resumable(gen[s])
    /\ is_thinking[s]
    /\ is_thinking' = [is_thinking EXCEPT ![s] = FALSE]
    /\ pc' = [pc EXCEPT ![s] = "append"]
    /\ UNCHANGED <<conns, failed, fixed, memories, accumulated_content, tool_calls_made, max_writes,
                   writes, response, chunk, idx, pulled, pending, executed, events>>
    /\ Suspends(s)

\* lines 446-452: the first text of the stream ends the thinking phase
ResponseStart(s) ==
    /\ pc[s] = "content"
    /\ Resumable(gen[s])
    /\ is_thinking[s]
    /\ is_thinking' = [is_thinking EXCEPT ![s] = FALSE]
    /\ Emit(s, <<ResponseStartEvent>>)
    /\ pc' = [pc EXCEPT ![s] = "append"]
    /\ UNCHANGED <<conns, failed, fixed, memories, accumulated_content, tool_calls_made, max_writes,
                   writes, response, chunk, idx, pulled, pending, executed>>
    /\ Suspends(s)

\* mutant: the text is accumulated on the orchestrator, which the sessions share
ContentShared(s) ==
    /\ \/ pc[s] = "append"
       \/ pc[s] = "content" /\ ~is_thinking[s]
    /\ Resumable(gen[s])
    /\ accumulated_content' =
           [t \in Streams |-> Accumulate(accumulated_content[t], chunk[s].content)]
    /\ Emit(s, <<ContentEvent(chunk[s].content)>>)
    /\ pc' = [pc EXCEPT ![s] = "pull"]
    /\ UNCHANGED <<conns, failed, fixed, memories,
                   is_thinking, tool_calls_made, max_writes, writes,
                   response, chunk, idx, pulled, pending, executed>>
    /\ Suspends(s)

\* lines 454-459: the chunk's text is accumulated and passed on, after the
\* response_start event or at once when the thinking phase is over
Content(s) ==
    /\ \/ pc[s] = "append"
       \/ pc[s] = "content" /\ ~is_thinking[s]
    /\ Resumable(gen[s])
    /\ accumulated_content' =
           [accumulated_content EXCEPT ![s] = Accumulate(@, chunk[s].content)]
    /\ Emit(s, <<ContentEvent(chunk[s].content)>>)
    /\ pc' = [pc EXCEPT ![s] = "pull"]
    /\ UNCHANGED <<conns, failed, fixed, memories,
                   is_thinking, tool_calls_made, max_writes, writes,
                   response, chunk, idx, pulled, pending, executed>>
    /\ Suspends(s)

\* lines 461-486: the backend stream is exhausted. `response` is the loop
\* variable: unbound when no chunk was pulled, so that building the final
\* event raises; reading the citations or the usage may raise as well.
Complete(s, F) ==
    /\ pc[s] = "pull"
    /\ Resumable(gen[s])
    /\ \E f \in F :
        IF ~response[s].bound
        THEN /\ Emit(s, <<ErrorEvent("UnboundLocalError")>>)
             /\ UNCHANGED failed
        ELSE IF f = "raise"
        THEN /\ Emit(s, <<ErrorEvent("TypeError")>>)
             /\ failed' = [failed EXCEPT ![s] = TRUE]
        ELSE /\ Emit(s, <<CompleteEvent(accumulated_content[s], response[s],
                                        tool_calls_made[s])>>)
             /\ UNCHANGED failed
    /\ pc' = [pc EXCEPT ![s] = "done"]
    /\ UNCHANGED <<conns, fixed, memories, locals>>
    /\ Suspends(s)

\* lines 398 and 481-486: pulling the next chunk raises
BackendFails(s) ==
    /\ pc[s] = "pull"
    /\ Resumable(gen[s])
    /\ Emit(s, <<ErrorEvent("BackendError")>>)
    /\ failed' = [failed EXCEPT ![s] = TRUE]
    /\ pc' = [pc EXCEPT ![s] = "done"]
    /\ UNCHANGED <<conns, fixed, memories, locals>>
    /\ Suspends(s)

\* ------------------------------------------------------------- endpoint
\* lines 557-569: POST /api/agentic/memory/add inserts the request's text as
\* it is, without a lookup; a failure of the store is the framework's answer
\* to an unhandled exception
MemoryAddEndpoint(users, texts, F) ==
    /\ posts < MaxPosts
    /\ posts' = posts + 1
    /\ \E u \in users, t \in texts, f \in F :
        IF f = "raise"
        THEN /\ reply' = [op |-> "add", user_id |-> u, text |-> t, status |-> 500]
             /\ conns' = AfterHandler(conns + 1, "raise")
             /\ UNCHANGED memories
        ELSE LET mem_id == NewId(memories)
             IN /\ memories' = InsertRow(memories, mem_id, u, t, NoMetadata, now)
                /\ reply' = [op |-> "add", user_id |-> u, text |-> t, status |-> 200,
                              success |-> TRUE, id |-> mem_id]
                /\ conns' = AfterHandler(conns + 1, "return")
    /\ UNCHANGED <<env, request_user_id, now, pc, locals, events, gen, failed>>

\* ------------------------------------------------------- specifications
StreamNext(s, C, F) ==
    \/ Start(s)
    \/ PullChunk(s, C)
    \/ ToolCall(s)
    \/ ExecuteMemoryAdd(s, F)
    \/ InsertMemory(s, F)
    \/ ResponseStart(s)
    \/ Content(s)
    \/ Complete(s, F)
    \/ BackendFails(s)

\* one stream over every chunk of the full alphabet, with store failures
Next == \E s \in SoloStreams : StreamNext(s, SoloChunks, Faults)

Spec == Init /\ [][Next]_vars

\* the writers of one store: two sessions, whose handlers reach the database
\* statement by statement (the SELECT and the INSERT of one handler are two
\* statements in no common transaction, so the statements of a handler in
\* another server process on the same mem_store.db fall between them), and
\* the endpoint
NextStore ==
    \/ \E s \in Streams : StreamNext(s, StoreChunks, NoFaults)
    \/ MemoryAddEndpoint({U1}, {<<"a">>}, NoFaults)

\* the cap is left at its default here: these sessions never reach it
InitStore == Init /\ env = EnvUnset

SpecStore == InitStore /\ [][NextStore]_vars

\* ------------------------------------------------- every registered tool
\* lines 65-190: the tools create_custom_tools registers, run by this service
ClientTools == {"whoop_data_query", "limitless_query", "memory_search", "memory_add"}

\* lines 320-322: the tools the backend runs itself
ServerTools == {"web_search", "x_search", "code_execution"}

\* one call of each registered tool
ToolsCalls ==
    {AddA, [name |-> "memory_search", arguments |-> ArgsJson(JObject([query |-> <<"a">>]))]}
        \cup {[name |-> n, arguments |-> ArgsJson(JObject(EmptyDict))] :
                 n \in {"whoop_data_query", "limitless_query"} \cup ServerTools}

\* chunks that announce at most one call, of any registered tool
ToolsChunks ==
    [reasoning_tokens : {0, 1},
     tool_calls : {<<>>} \cup {<<c>> : c \in ToolsCalls},
     content : {<<>>, <<"a">>}]

\* one stream over the calls of every registered tool, the cap at its
\* default, the store without failures
InitTools == Init /\ env = EnvUnset
NextTools == \E s \in SoloStreams : StreamNext(s, ToolsChunks, NoFaults)
SpecTools == InitTools /\ [][NextTools]_vars

\* ------------------------------------------------- concurrent sessions
\* the text the backend sends to each session
TextOf(s) == IF s = 1 THEN <<"a">> ELSE <<"b">>

\* two sessions of the one orchestrator (lines 499-500) whose backends send
\* the same reasoning progress and the same memory write, and each its own text
PairChunks(s) ==
    [reasoning_tokens : {1},
     tool_calls : {<<>>, <<[name |-> "memory_add",
                            arguments |-> ArgsDict([text |-> <<"a">>, user_id |-> U1])]>>},
     content : {<<>>, TextOf(s)}]

NextPair == \E s \in Streams : StreamNext(s, PairChunks(s), NoFaults)
SpecPair == InitStore /\ [][NextPair]_vars

\* --------------------------------------------------- the consumer closes
\* lines 628-640: the consumer of stream_response is event_generator, itself
\* consumed by the response object. When the response is torn down the
\* generators are closed: GeneratorExit is raised at the yield the generator
\* is suspended at, which no `except Exception` of stream_response catches
\* and no finally clause answers. A generator can be closed only while it is
\* suspended (or before it has started), never in the middle of its code.
Cancel(s) ==
    /\ gen[s] \in {"created", "suspended"}
    /\ gen' = [gen EXCEPT ![s] = "closed"]
    /\ UNCHANGED <<conns, fixed, memories, pc, locals, events, failed>>

\* lines 279-293: the handler's connection is open from connect to the
\* finally clause, that is between its SELECT and the end of its INSERT
OpenConnections(s) == IF pc[s] = "insert" THEN 1 ELSE 0

\* chunks with or without a memory write and with or without text
CancelChunks ==
    [reasoning_tokens : {0, 1}, tool_calls : {<<>>, <<AddA>>}, content : {<<>>, <<"a">>}]

\* one stream, with store failures, that its consumer may close at any yield
NextCancel ==
    \E s \in SoloStreams :
        \/ StreamNext(s, CancelChunks, Faults)
        \/ Cancel(s)
SpecCancel == InitStore /\ [][NextCancel]_vars

\* ------------------------------------------------- the store's endpoints
\* SQLite's LIKE compares the letters of ASCII without regard to case
Uppers == <<"A", "B">>
Lowers == <<"a", "b">>
Fold(c) == IF \E i \in 1..Len(Uppers) : Uppers[i] = c
           THEN Lowers[CHOOSE i \in 1..Len(Uppers) : Uppers[i] = c]
           ELSE c

RECURSIVE LikeMatch(_, _)
\* text LIKE pattern: % stands for any run of characters, _ for any one
LikeMatch(pattern, text) ==
    IF pattern = <<>> THEN text = <<>>
    ELSE IF Head(pattern) = "%"
         THEN \/ LikeMatch(Tail(pattern), text)
              \/ text # <<>> /\ LikeMatch(pattern, Tail(text))
    ELSE /\ text # <<>>
         /\ Head(pattern) = "_" \/ Fold(Head(pattern)) = Fold(Head(text))
         /\ LikeMatch(Tail(pattern), Tail(text))

\* line 577: f"%{req.query}%"
LikePattern(query) == <<"%">> \o query \o <<"%">>

\* line 576: WHERE user_id=? AND text LIKE ?
Selected(table, user_id, query) ==
    {i \in 1..Len(table) :
        table[i].user_id = user_id /\ LikeMatch(LikePattern(query), table[i].text)}

\* ORDER BY created_at DESC: the selected rows, newest first; rows of one
\* second come in an order the statement does not fix
Ordered(table, rows) ==
    {o \in [1..Cardinality(rows) -> rows] :
        /\ \A i, j \in DOMAIN o : i # j => o[i] # o[j]
        /\ \A i, j \in DOMAIN o : i < j => table[o[i]].created_at >= table[o[j]].created_at}

\* LIMIT n: a negative n is no limit
Limited(o, n) ==
    IF n < 0 \/ n >= Len(o) THEN o ELSE [i \in 1..n |-> o[i]]

\* lines 580-588: the columns of a result
ResultRow(r) ==
    [id |-> r.id, text |-> r.text, metadata |-> r.metadata, created_at |-> r.created_at]

\* lines 571-591: POST /api/agentic/memory/search
MemorySearchEndpoint(users, queries, limits) ==
    /\ \E u \in users, q \in queries, n \in limits :
        \E o \in Ordered(memories, Selected(memories, u, q)) :
            reply' = [op |-> "search", user_id |-> u, query |-> q, limit |-> n,
                      status |-> 200,
                      results |-> [i \in DOMAIN Limited(o, n) |->
                                      ResultRow(memories[Limited(o, n)[i]])]]
    /\ conns' = AfterHandler(conns + 1, "return")
    /\ UNCHANGED <<env, request_user_id, posts, now, memories, pc, locals, events, gen, failed>>

\* mutant: the statement has no WHERE clause
ListSelectedAll(table, user_id) == 1..Len(table)

\* line 598: WHERE user_id=?
ListSelected(table, user_id) == {i \in 1..Len(table) : table[i].user_id = user_id}

\* lines 593-613: GET /api/agentic/memory/list
MemoryListEndpoint(users) ==
    /\ \E u \in users :
        \E o \in Ordered(memories, ListSelected(memories, u)) :
            reply' = [op |-> "list", user_id |-> u, status |-> 200,
                      results |-> [i \in DOMAIN o |-> ResultRow(memories[o[i]])]]
    /\ conns' = AfterHandler(conns + 1, "return")
    /\ UNCHANGED <<env, request_user_id, posts, now, memories, pc, locals, events, gen, failed>>

\* strftime('%s','now') moves on
Tick ==
    /\ now < MaxClock
    /\ now' = now + 1
    /\ UNCHANGED <<conns, env, request_user_id, posts, reply, memories, pc, locals, events, gen,
                   failed>>

\* the requests the endpoints are given: any strings pass the request models
\* of lines 547-555
U2 == <<"u", "2">>
EpUsers == {U1, U2}
EpTexts == {<<"a">>, <<"b">>, <<" ">>}
EpQueries == {<<>>, <<"a">>, <<"A">>, <<"_">>}
EpLimits == {1, 5}

NextEndpoints ==
    \/ MemoryAddEndpoint(EpUsers, EpTexts, NoFaults)
    \/ MemorySearchEndpoint(EpUsers, EpQueries, EpLimits)
    \/ MemoryListEndpoint(EpUsers)
    \/ Tick
SpecEndpoints == InitStore /\ [][NextEndpoints]_vars

\* ------------------------------------------------- every memory operation
\* one session that writes through the tool handler, and the three endpoints,
\* on one store whose statements may fail
NextOps ==
    \/ \E s \in SoloStreams : StreamNext(s, CancelChunks, Faults)
    \/ MemoryAddEndpoint({U1}, {<<"a">>}, Faults)
    \/ MemorySearchEndpoint({U1}, {<<"a">>}, {1})
    \/ MemoryListEndpoint({U1})
SpecOps == InitStore /\ [][NextOps]_vars

\* ----------------------------------------------- execute_custom_tool
\* the values of a tool's arguments: a str, an int, or null
SStr(t) == [kind |-> "str", chars |-> t, n |-> 0]
SInt(n) == [kind |-> "int", chars |-> <<>>, n |-> n]
SNull == [kind |-> "null", chars |-> <<>>, n |-> 0]

\* bool(v)
STruthy(v) == (v.kind = "str" /\ v.chars # <<>>) \/ (v.kind = "int" /\ v.n # 0)

\* dict.get(k), and dict.get(k, dflt)
SGet(d, k) == IF k \in DOMAIN d THEN d[k] ELSE SNull
SGetDefault(d, k, dflt) == IF k \in DOMAIN d THEN d[k] ELSE dflt

Digits == <<"0", "1", "2", "3", "4", "5", "6", "7", "8", "9">>
IsDigit(c) == \E i \in 1..Len(Digits) : Digits[i] = c
DigitValue(c) == (CHOOSE i \in 1..Len(Digits) : Digits[i] = c) - 1

RECURSIVE DecimalValue(_)
DecimalValue(t) ==
    IF t = <<>> THEN 0 ELSE 10 * DecimalValue(SubSeq(t, 1, Len(t) - 1)) + DigitValue(t[Len(t)])

\* int(v): an int is itself; a str of digits, blanks around it allowed, is its
\* value; any other str raises ValueError and None raises TypeError
IntRaisesOn(v) ==
    \/ v.kind = "null"
    \/ v.kind = "str" /\ (Strip(v.chars) = <<>>
                          \/ \E i \in 1..Len(Strip(v.chars)) : ~IsDigit(Strip(v.chars)[i]))
IntOf(v) == IF v.kind = "int" THEN v.n ELSE DecimalValue(Strip(v.chars))

\* line 223: arguments.get("user_id") or "default"
SearchUserId(d) == IF STruthy(SGet(d, "user_id")) THEN SGet(d, "user_id") ELSE SStr(Default)

\* line 224: int(arguments.get("limit", 5))
DefaultLimit == 5
SearchLimit(d) == SGetDefault(d, "limit", SInt(DefaultLimit))

\* line 226: not query or not isinstance(query, str)
QueryMissing(d) == ~STruthy(SGet(d, "query")) \/ SGet(d, "query").kind # "str"

QueryRequired == "query is required for memory_search"
SearchFailed == "Failed to query memory search endpoint"

\* lines 230-233: os.getenv("NEXT_API_BASE_URL", "http://localhost:3000") and
\* the fixed alternate
DefaultBase == "http://localhost:3000"
AlternateBase == "http://localhost:3002"
SearchPath == "/api/memory/search"
CandidateUrls(base) == << <<base, SearchPath>>, <<AlternateBase, SearchPath>> >>

\* what a candidate does when posted to: it answers with a status and a
\* body, or the request raises
Answered(status, body) == [kind |-> "response", status |-> status, body |-> body, exc |-> ""]
Refused(exc) ==
    [kind |-> "raise", status |-> 0, body |-> [form |-> "text", results |-> <<>>], exc |-> exc]

\* the body of an answer: the JSON text of an object with or without a
\* results key, the JSON text of another value, or no JSON at all
BodyResults(r) == [form |-> "object", results |-> r]
BodyEmptyObject == [form |-> "no results", results |-> <<>>]
BodyArray == [form |-> "array", results |-> <<>>]
BodyText == [form |-> "text", results |-> <<>>]

\* lines 243-250: the answer is HTTP 200, resp.json() decodes it and
\* data.get exists, so that the handler returns
Returns(answer) ==
    /\ answer.kind = "response"
    /\ answer.status = 200
    /\ answer.body.form \in {"object", "no results"}

\* what the failure of one candidate leaves in last_error: line 252 for a
\* status other than 200, line 254 for an exception of the request, of
\* resp.json() (no JSON) or of data.get (JSON that is no object)
FailureOf(answer) ==
    IF answer.kind = "raise" THEN <<answer.exc>>
    ELSE IF answer.status # 200 THEN <<"HTTP", answer.status, answer.body.form>>
    ELSE IF answer.body.form = "text" THEN <<"JSONDecodeError">>
    ELSE <<"AttributeError">>

\* mutant: the first failure is kept
LastErrorKeepsFirst(last_error, answer) ==
    IF last_error = <<>> THEN FailureOf(answer) ELSE last_error

\* lines 252 and 254: last_error is overwritten
LastError(last_error, answer) == FailureOf(answer)

RECURSIVE SearchLoop(_, _, _, _, _)
\* lines 236-262: the candidates are posted to in order until one returns;
\* last_error = None is <<>> here
SearchLoop(d, urls, answers, i, last_error) ==
    IF i > Len(urls)
    THEN [raised |-> FALSE, contacted |-> urls,
          result |-> [error |-> SearchFailed, details |-> last_error,
                      query |-> SGet(d, "query"), user_id |-> SearchUserId(d),
                      limit |-> IntOf(SearchLimit(d))]]
    ELSE IF Returns(answers[i])
    THEN [raised |-> FALSE, contacted |-> SubSeq(urls, 1, i),
          result |-> [query |-> SGet(d, "query"), user_id |-> SearchUserId(d),
                      limit |-> IntOf(SearchLimit(d)),
                      results |-> answers[i].body.results]]
    ELSE SearchLoop(d, urls, answers, i + 1, LastError(last_error, answers[i]))

\* lines 221-263: the memory_search handler
MemorySearchTool(d, base, answers) ==
    IF IntRaisesOn(SearchLimit(d))
    THEN [raised |-> TRUE, contacted |-> <<>>,
          result |-> [exc |-> IF SearchLimit(d).kind = "null" THEN "TypeError"
                              ELSE "ValueError"]]
    ELSE IF QueryMissing(d)
    THEN [raised |-> FALSE, contacted |-> <<>>, result |-> [error |-> QueryRequired]]
    ELSE SearchLoop(d, CandidateUrls(base), answers, 1, <<>>)

\* lines 202-207: the whoop handler awaits query_whoop_data, whatever it
\* returns or raises
WhoopTool(d, answer) ==
    [raised |-> answer.kind = "raise", contacted |-> <<"whoop_api">>,
     result |-> IF answer.kind = "raise" THEN [exc |-> answer.exc]
                ELSE [data_type |-> SGet(d, "data_type"),
                      days_back |-> SGetDefault(d, "days_back", SInt(7))]]

\* lines 209-219: the limitless handler is a placeholder
LimitlessTool(d) ==
    [raised |-> FALSE, contacted |-> <<>>,
     result |-> [query_type |-> SGet(d, "query_type"), search_term |-> SGet(d, "search_term"),
                 note |-> "Placeholder - Limitless API integration pending"]]

\* line 295: f"Unknown tool: {tool_name}"
UnknownTool(name) ==
    [raised |-> FALSE, contacted |-> <<>>, result |-> [error |-> <<"Unknown tool: ", name>>]]

\* mutant: the handler of a tool is looked up in a table
DispatchByTable(name, d, base, answers) ==
    CASE name = "whoop_data_query" -> WhoopTool(d, answers[1])
      [] name = "limitless_query" -> LimitlessTool(d)
      [] name = "memory_search" -> MemorySearchTool(d, base, answers)
      [] OTHER -> [raised |-> TRUE, contacted |-> <<>>, result |-> [exc |-> "KeyError"]]

\* lines 202, 209, 221, 295: the if chain over tool_name; the memory_add
\* branch is the handler the stream runs (ExecuteMemoryAdd, InsertMemory)
Dispatch(name, d, base, answers) ==
    CASE name = "whoop_data_query" -> WhoopTool(d, answers[1])
      [] name = "limitless_query" -> LimitlessTool(d)
      [] name = "memory_search" -> MemorySearchTool(d, base, answers)
      [] OTHER -> UnknownTool(name)

\* lines 197-295: one call of execute_custom_tool. The handlers modelled here
\* keep nothing from one call to the next, so one call is followed.
ExecuteCustomTool(names, argsets, bases, answersets) ==
    /\ reply.op # "tool"
    /\ \E name \in names, d \in argsets, base \in bases, answers \in answersets :
        LET out == Dispatch(name, d, base, answers)
        IN reply' = [op |-> "tool", tool |-> name, arguments |-> d,
                     candidates |-> CandidateUrls(base), answers |-> answers,
                     raised |-> out.raised, contacted |-> out.contacted,
                     result |-> out.result]
    /\ UNCHANGED <<conns, env, request_user_id, posts, now, memories, pc, locals, events, gen,
                   failed>>

\* the calls tried: every tool but memory_add and names of no tool, arguments
\* with and without their keys, and two candidates that each return, answer
\* something else or fail
HandlerNames ==
    {"whoop_data_query", "limitless_query", "memory_search",
     "store_memory", "web_search", "Memory_Search", ""}
HandlerArgs ==
    { EmptyDict,
      [query |-> SStr(<<"a">>)],
      [query |-> SStr(<<>>), limit |-> SInt(1)],
      [query |-> SInt(1), user_id |-> SStr(U1)],
      [query |-> SStr(<<"a">>), user_id |-> SStr(U1), limit |-> SStr(<<"2">>)],
      [query |-> SStr(<<"a">>), limit |-> SStr(<<"x">>)],
      [query |-> SStr(<<"a">>), limit |-> SNull] }
HandlerBases == {DefaultBase, AlternateBase}
CandidateAnswers ==
    { Answered(200, BodyResults(<<"m">>)), Answered(200, BodyEmptyObject),
      Answered(200, BodyArray), Answered(200, BodyText),
      Answered(500, BodyText), Refused("ConnectError") }
HandlerAnswers == [1..2 -> CandidateAnswers]

NextHandlers == ExecuteCustomTool(HandlerNames, HandlerArgs, HandlerBases, HandlerAnswers)
SpecHandlers == InitStore /\ [][NextHandlers]_vars

\* ------------------------------------------------- POST /api/agentic/chat
NoResponse == [error |-> "No response generated"]

RECURSIVE FinalResponse(_, _)
\* lines 650-661: final_response is None (fr = NoReply) until a complete
\* event is seen and the last complete event from then on
FinalResponse(evs, fr) ==
    IF evs = <<>> THEN fr
    ELSE FinalResponse(Tail(evs), IF Head(evs).type = "complete" THEN Head(evs) ELSE fr)

\* line 663: final_response or {"error": "No response generated"}
OrNoResponse(fr) == IF fr = NoReply THEN NoResponse ELSE fr

\* lines 643-663: the endpoint consumes the whole stream and answers; an
\* exception that leaves the generator leaves the endpoint too
ChatReturns(s) ==
    /\ pc[s] \in {"done", "raised"}
    /\ reply.op # "chat"
    /\ reply' = IF pc[s] = "raised"
                THEN [op |-> "chat", stream |-> s, status |-> 500]
                ELSE [op |-> "chat", stream |-> s, status |-> 200,
                      body |-> OrNoResponse(FinalResponse(events[s], NoReply))]
    /\ UNCHANGED <<conns, env, request_user_id, posts, now, memories, pc, locals, events, gen,
                   failed>>

\* one request to the endpoint
NextChat ==
    \E s \in SoloStreams :
        \/ StreamNext(s, CancelChunks, Faults)
        \/ ChatReturns(s)
SpecChat == Init /\ [][NextChat]_vars

\* ------------------------------------------------- the session's messages
\* xai_sdk.chat's system(), user() and assistant()
SystemMessage(t) == [role |-> "system", content |-> t]
UserMessage(t) == [role |-> "user", content |-> t]
AssistantMessage(t) == [role |-> "assistant", content |-> t]

\* lines 338-343: the fixed policy text
MemoryPolicy == <<"You have tools memory_search and memory_add. ">>

\* mutant: else in place of the second elif
MessageOfElse(msg) ==
    IF msg.role = "user" THEN <<UserMessage(msg.content)>>
    ELSE <<AssistantMessage(msg.content)>>

\* lines 353-356: what one history entry adds
MessageOf(msg) ==
    IF msg.role = "user" THEN <<UserMessage(msg.content)>>
    ELSE IF msg.role = "assistant" THEN <<AssistantMessage(msg.content)>>
    ELSE <<>>

RECURSIVE HistoryMessages(_)
\* lines 351-356
HistoryMessages(history) ==
    IF history = <<>> THEN <<>>
    ELSE MessageOf(Head(history)) \o HistoryMessages(Tail(history))

\* lines 353-356: msg["role"] of an entry without a role raises KeyError, and
\* so does msg["content"] of a user or assistant entry without content
SessionRaises(history) ==
    \/ CreateChatRaises(history)
    \/ \E i \in 1..Len(history) :
          /\ "role" \in DOMAIN history[i]
          /\ history[i].role \in {"user", "assistant"}
          /\ "content" \notin DOMAIN history[i]

\* lines 336-368: the messages create_chat appends to the chat; None and ""
\* are both no system prompt (<<>>)
CreateChat(system_prompt, history) ==
    <<SystemMessage(MemoryPolicy)>>
        \o (IF system_prompt # <<>> THEN <<SystemMessage(system_prompt)>> ELSE <<>>)
        \o HistoryMessages(history)

\* lines 388-389: the session of a request
BuildSession(prompts, histories, queries) ==
    /\ reply.op # "session"
    /\ \E system_prompt \in prompts, history \in histories, query \in queries :
        reply' = [op |-> "session", system_prompt |-> system_prompt, history |-> history,
                  query |-> query, raised |-> SessionRaises(history),
                  messages |-> IF SessionRaises(history) THEN <<>>
                               ELSE Append(CreateChat(system_prompt, history),
                                           UserMessage(query))]
    /\ UNCHANGED <<conns, env, request_user_id, posts, now, memories, pc, locals, events, gen,
                   failed>>

\* the turns a request may carry: of the two roles, of other roles, and one
\* without a role
SessionTurns ==
    { [role |-> "user", content |-> <<"a">>],
      [role |-> "assistant", content |-> <<"b">>],
      [role |-> "system", content |-> <<"c">>],
      [role |-> "tool", content |-> <<"d">>],
      [content |-> <<"e">>] }
SessionHistories == UNION {[1..n -> SessionTurns] : n \in 0..MaxHistory}
SessionPrompts == {<<>>, <<"p">>}

NextSession == BuildSession(SessionPrompts, SessionHistories, {<<"q">>})
SpecSession == InitStore /\ [][NextSession]_vars

\* ------------------------------------------------- a stream that is consumed
LiveChunks ==
    [reasoning_tokens : {0, 1}, tool_calls : {<<>>, <<AddA>>, <<AddBlank>>},
     content : {<<>>, <<"a">>}]

\* lines 616-640: EventSourceResponse iterates the generator until it is
\* exhausted, so a stream that can take a step takes one; the backend
\* delivers MaxChunks chunks at most
NextLive == \E s \in SoloStreams : StreamNext(s, LiveChunks, Faults)
Consumed == \A s \in SoloStreams : WF_vars(StreamNext(s, LiveChunks, Faults))
SpecLive == Init /\ [][NextLive]_vars /\ Consumed

\* ------------------------------------------------- streams of several calls
\* chunks that announce two calls: a server-side tool and memory writes that
\* are executed, fail or meet the cap
CallsChunks ==
    [reasoning_tokens : {0},
     tool_calls : {<<>>, <<WebSearch, AddA>>, <<AddBlank, AddA>>, <<AddA, AddA>>},
     content : {<<>>, <<"a">>}]

\* one stream, every value of the cap, with store failures
NextCalls == \E s \in SoloStreams : StreamNext(s, CallsChunks, Faults)
SpecCalls == Init /\ [][NextCalls]_vars

\* ------------------------------------------- the arguments of a memory write
\* memory_add calls whose arguments lack the text, are JSON null, are a str
\* that is not JSON (of text or of blanks), or pad the text with blanks
AddMissing == [name |-> "memory_add", arguments |-> ArgsJson(JObject(EmptyDict))]
AddNull == [name |-> "memory_add", arguments |-> ArgsJson(JNull)]
AddRaw == [name |-> "memory_add", arguments |-> ArgsText(<<"a">>)]
AddRawBlank == [name |-> "memory_add", arguments |-> ArgsText(<<" ">>)]
AddRawPadded == [name |-> "memory_add", arguments |-> ArgsText(<<" ", "a">>)]
AddPadded == [name |-> "memory_add", arguments |-> ArgsJson(JObject([text |-> <<" ", "a", " ">>]))]

ArgsChunks ==
    [reasoning_tokens : {0},
     tool_calls : {<<>>} \cup {<<c>> : c \in {AddA, AddBlank, AddMissing, AddNull, AddRaw,
                                              AddRawBlank, AddRawPadded, AddPadded}},
     content : {<<>>, <<"a">>}]

\* one stream of memory writes, every value of the cap, with store failures
NextArgs == \E s \in SoloStreams : StreamNext(s, ArgsChunks, Faults)
SpecArgs == Init /\ [][NextArgs]_vars

\* ------------------------------------------------- the usage of a response
\* the reasoning tokens of the snapshot that comes with each text: the
\* snapshots of one backend stream differ from chunk to chunk
UsageWith(content) ==
    CASE content = <<"a">> -> 1
      [] content = <<"b">> -> 2
      [] OTHER -> 0

UsageChunks ==
    {[reasoning_tokens |-> UsageWith(t), tool_calls |-> <<>>, content |-> t] :
        t \in {<<>>, <<"a">>, <<"b">>}}
        \cup {[reasoning_tokens |-> 0, tool_calls |-> <<AddA>>, content |-> <<>>]}

\* one stream whose chunks tell which snapshot came with them
NextUsage == \E s \in SoloStreams : StreamNext(s, UsageChunks, Faults)
SpecUsage == Init /\ [][NextUsage]_vars

\* ------------------------------------------- chunks of several payloads
\* chunks with or without reasoning progress, two tool calls and text
OrderChunks ==
    [reasoning_tokens : {0, 1},
     tool_calls : {<<>>, <<WebSearch, AddA>>, <<AddBlank, AddA>>},
     content : {<<>>, <<"a">>}]

\* one stream over them, every value of the cap, with store failures
NextOrder == \E s \in SoloStreams : StreamNext(s, OrderChunks, Faults)
SpecOrder == Init /\ [][NextOrder]_vars

\* ------------------------------------------------- the user of a request
\* a memory write for user U1
AddForU1 ==
    [name |-> "memory_add", arguments |-> ArgsJson(JObject([text |-> <<"a">>, user_id |-> U1]))]

\* chunks that write for no user or for U1: none names U2
RequestChunks ==
    [reasoning_tokens : {0, 1},
     tool_calls : {<<>>, <<AddA>>, <<AddForU1>>},
     content : {<<>>, <<"a">>}]

\* line 519: ChatRequest.user_id, absent or any of the users
RequestUsers == {NoUser, U1, U2}

\* one stream, called with any of the users
NextRequests ==
    \E s \in SoloStreams :
        \/ StartAs(s, RequestUsers)
        \/ PullChunk(s, RequestChunks)
        \/ ToolCall(s)
        \/ ExecuteMemoryAdd(s, Faults)
        \/ InsertMemory(s, Faults)
        \/ ResponseStart(s)
        \/ Content(s)
        \/ Complete(s, Faults)
        \/ BackendFails(s)
SpecRequests == Init /\ [][NextRequests]_vars

\* ------------------------------------------------- reading the event log
Positions(s) == 1..Len(events[s])
IsType(e, t) == e.type = t
Terminal(e) == e.type \in {"complete", "error"}
OfType(s, t) == {i \in Positions(s) : events[s][i].type = t}
Finished(s) == pc[s] \in {"done", "raised"}

\* a tool_result event that carries a result payload reporting success
IsSuccess(e) == e.type = "tool_result" /\ "result" \in DOMAIN e /\ Succeeded(e.result)

\* successful results among the first n events of stream s
SuccessesIn(s, n) == Cardinality({i \in 1..n : IsSuccess(events[s][i])})

RECURSIVE ConcatTexts(_, _)
\* the texts of the content events among the first n events, concatenated
ConcatTexts(s, n) ==
    IF n = 0 THEN <<>>
    ELSE IF events[s][n].type = "content"
         THEN ConcatTexts(s, n - 1) \o events[s][n].text
         ELSE ConcatTexts(s, n - 1)

IsWrite(e) == e.type = "tool_call" /\ e.tool \in {"memory_add", "store_memory"}

\* ---------------------------------------------------------------- claims

\* C1: every invocation of stream_response, wherever a failure occurs
\* (building the session included), ends with exactly one complete or error
\* event, and that event is the last of the stream.
C1_OneTerminalEventLast ==
    \A s \in Streams :
        /\ \A i \in Positions(s) : Terminal(events[s][i]) => i = Len(events[s])
        /\ Finished(s) =>
               /\ events[s] # <<>>
               /\ Terminal(events[s][Len(events[s])])

\* C2: response_start is emitted at most once, every content event comes
\* after it, and it is emitted exactly at the first chunk with text, while
\* is_thinking is true: it is directly followed by that chunk's content event
\* (never emitted for a chunk without text), the first content event directly
\* follows it, and is_thinking is false from then on.
C2_ResponseStartOnceBeforeContent ==
    \A s \in Streams :
        /\ Cardinality(OfType(s, "response_start")) <= 1
        /\ \A j \in OfType(s, "content") :
               \E i \in OfType(s, "response_start") : i < j
        /\ \A i \in OfType(s, "response_start") :
               /\ ~is_thinking[s]
               /\ IF i = Len(events[s])
                  THEN pc[s] = "append" /\ chunk[s].content # <<>>
                  ELSE /\ events[s][i + 1].type = "content"
                       /\ \A j \in OfType(s, "content") : j > i
        /\ OfType(s, "response_start") = {} => is_thinking[s]

C2_Witness ==
    /\ pc[1] = "done"
    /\ Cardinality(OfType(1, "content")) = 2
    /\ Cardinality(OfType(1, "response_start")) = 1
    /\ events[1][1].type = "thinking"

\* C3: accumulated_content is at every moment the concatenation of the texts
\* of the content events emitted so far, and complete.content is the
\* concatenation of the texts of all content events of the stream.
C3_ContentIsConcatenation ==
    \A s \in Streams :
        /\ accumulated_content[s] = ConcatTexts(s, Len(events[s]))
        /\ \A i \in OfType(s, "complete") :
               events[s][i].content = ConcatTexts(s, Len(events[s]))

C3_Witness ==
    /\ OfType(1, "complete") # {}
    /\ events[1][Len(events[1])].content = <<"a", "b">>
    /\ OfType(1, "tool_result") # {}

ResultsOf(s) == OfType(s, "tool_result")
ExecutedIds(s) == {executed[s][k] : k \in 1..Len(executed[s])}

\* C5 as stated: attempts count against the cap whether or not they
\* succeeded, so no tool_result follows the Kth attempt and the handler runs
\* at most K times in one stream.
C5_AttemptsWithinCap ==
    \A s \in Streams :
        /\ Len(executed[s]) <= max_writes[s]
        /\ \A i \in ResultsOf(s) :
               Cardinality({j \in ResultsOf(s) : j < i}) < max_writes[s]

\* C5, amended: no tool_result is emitted for a memory write announced once K
\* executions of the stream have succeeded; failed attempts are not counted,
\* so the successful executions of a stream never exceed K.
C5_SuccessesWithinCap ==
    \A s \in Streams :
        /\ \A i \in ResultsOf(s) : SuccessesIn(s, i - 1) < max_writes[s]
        /\ \A i \in Positions(s) :
               (IsWrite(events[s][i]) /\ i < Len(events[s])
                    /\ events[s][i + 1].type = "tool_result") =>
                   SuccessesIn(s, i) < max_writes[s]

\* a failed attempt, then the one success the cap allows, then a write that
\* is announced and not executed
C5_Witness ==
    /\ max_writes[1] = 1
    /\ pc[1] = "done"
    /\ Cardinality(ResultsOf(1)) = 2
    /\ SuccessesIn(1, Len(events[1])) = 1
    /\ \E i \in ResultsOf(1) : ~IsSuccess(events[1][i]) /\ SuccessesIn(1, i) = 0
    /\ \E i \in Positions(1) :
           IsWrite(events[1][i]) /\ events[1][i + 1].type # "tool_result"

\* the rows stream s inserted: its results that report success without dedup
InsertedBy(s) ==
    {i \in ResultsOf(s) : IsSuccess(events[s][i]) /\ "dedup" \notin DOMAIN events[s][i].result}

\* C6: the tool_result events of one stream that report success are at most
\* max_writes, and so are the rows the stream inserted (with one stream and
\* no other writer, these are all the rows of the table).
C6_SuccessesAndRowsWithinCap ==
    /\ \A s \in Streams :
           /\ SuccessesIn(s, Len(events[s])) <= max_writes[s]
           /\ Cardinality(InsertedBy(s)) <= max_writes[s]
    /\ Len(memories) = Cardinality(InsertedBy(1))
    /\ Len(memories) <= max_writes[1]

C6_Witness ==
    /\ max_writes[1] = 1
    /\ Len(memories) = 1
    /\ pc[1] = "done"
    /\ \E i \in ResultsOf(1) : "error" \in DOMAIN events[1][i]
    /\ \E i \in Positions(1) : IsWrite(events[1][i]) /\ events[1][i].id \notin ExecutedIds(1)

\* C10: an executed memory write yields exactly one tool_result, emitted
\* directly after its own tool_call (so before the events of any later tool
\* call or chunk), and no tool call is handed to the handler twice.
C10_OneResultRightAfterCall ==
    \A s \in Streams :
        /\ \A k, l \in 1..Len(executed[s]) : k # l => executed[s][k] # executed[s][l]
        /\ \A i \in ResultsOf(s) :
               /\ i > 1
               /\ IsWrite(events[s][i - 1])
               /\ events[s][i - 1].tool = events[s][i].tool
               /\ events[s][i - 1].id \in ExecutedIds(s)
        /\ \A i \in OfType(s, "tool_call") :
               events[s][i].id \in ExecutedIds(s) =>
                   IF i = Len(events[s])
                   THEN pc[s] = "insert"
                   ELSE events[s][i + 1].type = "tool_result"
        /\ Cardinality(ResultsOf(s)) + (IF pc[s] = "insert" THEN 1 ELSE 0) = Len(executed[s])

\* two executed calls of one chunk, each followed by its own result
C10_Witness ==
    /\ Len(executed[1]) = 2
    /\ Len(events[1]) >= 5
    /\ events[1][2].type = "tool_call" /\ events[1][3].type = "tool_result"
    /\ events[1][4].type = "tool_call" /\ events[1][5].type = "tool_result"
    /\ pulled[1] = 1

\* the (user_id, text) pair the handler derives from a tool_call event
CallKey(e) ==
    LET d == OrEmptyDict(DecodeArgs(e.arguments)).dict
    IN <<AddUserId(d), AddText(d)>>

\* the successful results of stream s before position j for the pair k
PriorSuccesses(s, j, k) ==
    {i \in 2..(j - 1) : IsSuccess(events[s][i]) /\ CallKey(events[s][i - 1]) = k}

\* C8: of the handler's sequential calls for one (user_id, text) pair, the
\* first that succeeds returns a fresh id without a dedup marker, every later
\* one returns that id with dedup true, and the table holds one row for the
\* pair, carrying that id.
C8_SecondCallReturnsFirstId ==
    /\ \A i, j \in 1..Len(memories) : i # j => memories[i].id # memories[j].id
    /\ \A j \in ResultsOf(1) :
           IsSuccess(events[1][j]) =>
               LET k == CallKey(events[1][j - 1])
                   r == events[1][j].result
               IN /\ PriorSuccesses(1, j, k) = {} => "dedup" \notin DOMAIN r
                  /\ \A i \in PriorSuccesses(1, j, k) :
                         /\ "dedup" \in DOMAIN r
                         /\ r.dedup
                         /\ r.id = events[1][i].result.id
                  /\ Cardinality(Matching(memories, k[1], k[2])) = 1
                  /\ \A m \in Matching(memories, k[1], k[2]) : memories[m].id = r.id

C8_Witness ==
    /\ Len(events[1]) >= 4
    /\ IsSuccess(events[1][2]) /\ "dedup" \notin DOMAIN events[1][2].result
    /\ IsSuccess(events[1][4]) /\ "dedup" \in DOMAIN events[1][4].result
    /\ events[1][4].result.id = events[1][2].result.id
    /\ CallKey(events[1][1]) = CallKey(events[1][3])
    /\ Len(memories) = 1

\* C7: whatever adds were issued, through the tool handler and the endpoint,
\* the table holds at most one row for each (user_id, text) pair.
C7_OneRowPerUserText ==
    \A i, j \in 1..Len(memories) :
        i # j => <<memories[i].user_id, memories[i].text>>
                     # <<memories[j].user_id, memories[j].text>>

\* C9: the handler's insert does not look again: a handler that found no row
\* at its check inserts its row whatever was committed since, so that each of
\* its inserts adds one row to the table, a row of the same pair included.
C9_InsertDoesNotRecheck ==
    [][\A s \in Streams :
           (pc[s] = "insert" /\ pc'[s] # "insert") =>
               /\ memories' = Append(memories, memories'[Len(memories')])
               /\ memories'[Len(memories')].user_id = pending[s].user_id
               /\ memories'[Len(memories')].text = pending[s].text
               /\ IsSuccess(events'[s][Len(events'[s])])
               /\ "dedup" \notin DOMAIN events'[s][Len(events'[s])].result]_vars

\* two sessions passed the check for the same pair before either inserted,
\* and both rows are stored; the endpoint took no part
C9_Witness ==
    /\ posts = 0
    /\ Len(memories) = 2
    /\ memories[1].user_id = memories[2].user_id
    /\ memories[1].text = memories[2].text
    /\ \E i \in InsertedBy(1), j \in InsertedBy(2) :
           events[1][i].result.id # events[2][j].result.id

\* C11: once the loop is over, every announced call of a client-executed
\* tool (whoop_data_query, limitless_query, memory_search, memory_add) was
\* handed to the executor and is directly followed by its tool_result event.
C11_ClientToolsExecuted ==
    \A s \in Streams :
        pc[s] = "done" =>
            \A i \in OfType(s, "tool_call") :
                events[s][i].tool \in ClientTools =>
                    /\ events[s][i].id \in ExecutedIds(s)
                    /\ i < Len(events[s])
                    /\ events[s][i + 1].type = "tool_result"
                    /\ events[s][i + 1].tool = events[s][i].tool

\* C12: a call of a server-executed tool (web_search, x_search,
\* code_execution) is announced and recorded in tool_calls_made, and that is
\* all: it is never handed to the executor, no tool_result follows it, and the
\* step that announces it leaves writes and the store as they were.
C12_ServerToolsOnlyObserved ==
    /\ [](\A s \in Streams : \A i \in OfType(s, "tool_call") :
            events[s][i].tool \in ServerTools =>
                /\ events[s][i].id \notin ExecutedIds(s)
                /\ \E k \in 1..Len(tool_calls_made[s]) : tool_calls_made[s][k] = events[s][i]
                /\ i < Len(events[s]) => events[s][i + 1].type # "tool_result")
    /\ [][\A s \in Streams :
            (/\ Len(events'[s]) = Len(events[s]) + 1
             /\ events'[s][Len(events'[s])].type = "tool_call"
             /\ events'[s][Len(events'[s])].tool \in ServerTools)
            => /\ tool_calls_made'[s] = Append(tool_calls_made[s], events'[s][Len(events'[s])])
               /\ pc'[s] \in {"tool_call", "content", "pull"}
               /\ UNCHANGED <<writes, memories, executed, pending>>]_vars

C12_Witness ==
    /\ pc[1] = "done"
    /\ Len(events[1]) = 5
    /\ events[1][5].type = "complete"
    /\ writes[1] = 0 /\ memories = <<>> /\ executed[1] = <<>>
    /\ events[1][1].type = "tool_call" /\ events[1][1].tool = "x_search"
    /\ events[1][2].type = "tool_call" /\ events[1][2].tool = "code_execution"
    /\ events[1][3].type = "response_start"
    /\ events[1][4].type = "content"

\* a tool_result that reports a failure, by its error field or in its payload
IsFailure(e) ==
    /\ e.type = "tool_result"
    /\ IF "result" \in DOMAIN e THEN "error" \in DOMAIN e.result ELSE "error" \in DOMAIN e

\* what the failures of an inline memory_add raise
AddFailures == {"AttributeError", "OperationalError"}

\* C13: no failure inside an inline memory_add (blank text, arguments that
\* decode to no object, the store failing at connect, SELECT, INSERT or
\* commit) becomes the stream's error event or ends the stream: every call
\* handed to the executor gets its tool_result, and after a failed one the
\* stream is still in its loop with the rest of the chunks to consume.
C13_AddFailuresStayInStream ==
    \A s \in Streams :
        /\ \A i \in OfType(s, "error") : events[s][i].error \notin AddFailures
        /\ \A j \in OfType(s, "tool_call") :
               events[s][j].id \in ExecutedIds(s) =>
                   IF j = Len(events[s]) THEN pc[s] = "insert"
                   ELSE events[s][j + 1].type = "tool_result"
        /\ \A i \in Positions(s) :
               (IsFailure(events[s][i]) /\ i = Len(events[s])) =>
                   pc[s] \in {"tool_call", "content", "pull"}

C13_Witness ==
    /\ pc[1] = "done"
    /\ events[1][Len(events[1])].type = "complete"
    /\ memories = <<>>
    /\ \E i, j, k \in ResultsOf(1) :
          /\ i < j /\ j < k
          /\ "result" \in DOMAIN events[1][i] /\ events[1][i].result = ErrorResult(TextRequired)
          /\ "error" \in DOMAIN events[1][j] /\ events[1][j].error = "OperationalError"
          /\ "error" \in DOMAIN events[1][k] /\ events[1][k].error = "AttributeError"
          /\ events[1][k + 1].type = "content"

\* C14: a stream that has left its loop ends with the complete event when the
\* backend stream was exhausted and nothing failed (a backend stream of zero
\* chunks included), and with an error event and no complete event when
\* something failed.
C14_CompleteIffNoFailure ==
    \A s \in Streams :
        pc[s] = "done" =>
            /\ events[s] # <<>>
            /\ IF failed[s]
               THEN /\ events[s][Len(events[s])].type = "error"
                    /\ OfType(s, "complete") = {}
               ELSE events[s][Len(events[s])].type = "complete"

\* the stream ended with the complete event
Completed(s) ==
    pc[s] = "done" /\ events[s] # <<>> /\ events[s][Len(events[s])].type = "complete"

\* C15 as stated: every stream that ends with complete after at least one
\* chunk contains exactly one response_start event, before its first content
\* event.
C15_StartInEveryCompletedStream ==
    \A s \in Streams :
        (Completed(s) /\ pulled[s] >= 1) =>
            /\ Cardinality(OfType(s, "response_start")) = 1
            /\ \A i \in OfType(s, "response_start"), j \in OfType(s, "content") : i < j

\* C15, amended: every stream that ends with complete after at least one
\* chunk that carried text contains exactly one response_start event, strictly
\* before its first content event; a completed stream none of whose chunks
\* carried text contains no response_start event.
C15_StartIffText ==
    \A s \in Streams :
        Completed(s) =>
            IF OfType(s, "content") # {}
            THEN /\ Cardinality(OfType(s, "response_start")) = 1
                 /\ \A i \in OfType(s, "response_start"), j \in OfType(s, "content") : i < j
            ELSE OfType(s, "response_start") = {}

C15_Witness ==
    /\ Completed(1)
    /\ pulled[1] = 2
    /\ chunk[1].content # <<>>
    /\ Cardinality(OfType(1, "content")) = 1
    /\ Cardinality(OfType(1, "tool_call")) = 2
    /\ \E i \in OfType(1, "response_start") : events[1][i + 1].type = "content"

\* the tool_result events of stream s, in order
RECURSIVE ResultsIn(_, _)
ResultsIn(s, n) ==
    IF n = 0 THEN <<>>
    ELSE IF events[s][n].type = "tool_result"
         THEN Append(ResultsIn(s, n - 1), events[s][n])
         ELSE ResultsIn(s, n - 1)

\* the tool_call events of stream s, in order
RECURSIVE CallsIn(_, _)
CallsIn(s, n) ==
    IF n = 0 THEN <<>>
    ELSE IF events[s][n].type = "tool_call"
         THEN Append(CallsIn(s, n - 1), events[s][n])
         ELSE CallsIn(s, n - 1)

\* what each session keeps is what its own events tell, and its texts are
\* the texts of its own backend
OwnState(s) ==
    /\ is_thinking[s] = (OfType(s, "response_start") = {})
    /\ accumulated_content[s] = ConcatTexts(s, Len(events[s]))
    /\ tool_calls_made[s] = CallsIn(s, Len(events[s]))
    /\ writes[s] = SuccessesIn(s, Len(events[s]))
    /\ \A i \in OfType(s, "content") : events[s][i].text = TextOf(s)
    /\ \A i \in OfType(s, "complete") :
           /\ events[s][i].content = accumulated_content[s]
           /\ \A k \in 1..Len(events[s][i].content) : events[s][i].content[k] = TextOf(s)[1]

\* a step of one session leaves everything another session keeps as it was
OwnSteps ==
    \A s, t \in Streams :
        (s # t /\ <<pc[s], events[s], pulled[s]>>' # <<pc[s], events[s], pulled[s]>>) =>
            <<pc[t], is_thinking[t], accumulated_content[t], tool_calls_made[t],
              max_writes[t], writes[t], response[t], chunk[t], idx[t], pulled[t],
              pending[t], executed[t], events[t]>>' =
            <<pc[t], is_thinking[t], accumulated_content[t], tool_calls_made[t],
              max_writes[t], writes[t], response[t], chunk[t], idx[t], pulled[t],
              pending[t], executed[t], events[t]>>

\* run alone on an empty store, a session that writes one pair inserts it at
\* its first memory_add and finds it at every later one
AloneDedup(k) == k > 1

\* C16 as stated: what each of the concurrent sessions keeps depends on its
\* own chunks only, and its events are those it produces when run alone: the
\* results of its memory_add calls included.
C16_EventsAsAlone ==
    \A s \in Streams :
        /\ OwnState(s)
        /\ LET results == ResultsIn(s, Len(events[s]))
           IN \A k \in 1..Len(results) :
                  /\ Succeeded(results[k].result)
                  /\ ("dedup" \in DOMAIN results[k].result) = AloneDedup(k)

\* C16, amended: what each of the concurrent sessions keeps depends on its own
\* chunks only and no step of another session changes it; its events are those
\* it produces when run alone up to the payloads of its memory_add results,
\* which succeed as they do alone but whose id and dedup marker depend on the
\* rows the other sessions have put in the shared store; its complete.content
\* holds none of another session's text.
C16_IsolatedButForStore ==
    /\ [](\A s \in Streams :
            /\ OwnState(s)
            /\ LET results == ResultsIn(s, Len(events[s]))
               IN \A k \in 1..Len(results) : Succeeded(results[k].result))
    /\ [][OwnSteps]_vars

C16_Witness ==
    /\ Completed(1) /\ Completed(2)
    /\ events[1][Len(events[1])].content = <<"a", "a">>
    /\ events[2][Len(events[2])].content = <<"b", "b">>
    /\ writes = <<2, 2>>
    /\ Len(memories) = 1
    /\ "dedup" \in DOMAIN ResultsIn(2, Len(events[2]))[1].result

C18_NoBlankTextStored ==
    /\ \A i \in 1..Len(memories) : Strip(memories[i].text) # <<>>
    /\ (reply.op = "add" /\ Strip(reply.text) = <<>>) => reply.status # 200

\* text contains query as a substring, character for character
Contains(text, query) ==
    \E k \in 0..(Len(text) - Len(query)) :
        \A i \in 1..Len(query) : text[k + i] = query[i]

\* the rows of user_id whose text contains the query
Containing(user_id, query) ==
    {i \in 1..Len(memories) :
        memories[i].user_id = user_id /\ Contains(memories[i].text, query)}

\* the row of the store a result was read from
RowOf(result) == CHOOSE i \in 1..Len(memories) : memories[i].id = result.id

\* C19: the answer to search(user_id, query, limit) holds exactly the records
\* of user_id whose text contains query as a substring, newest first and cut
\* to limit: no record of another user, none whose text does not contain the
\* query, none twice, none left out for an older one; and a search stores or
\* removes nothing (every row of the store was put there by an add).
C19_SearchIsSubstringNewestFirst ==
    /\ Len(memories) = posts
    /\ reply.op = "search" =>
        LET hits == Containing(reply.user_id, reply.query)
            results == reply.results
            found == {RowOf(results[i]) : i \in 1..Len(results)}
        IN /\ \A i \in 1..Len(results) :
                  \E j \in hits : ResultRow(memories[j]) = results[i]
           /\ Cardinality(found) = Len(results)
           /\ Len(results) = IF Cardinality(hits) < reply.limit THEN Cardinality(hits)
                             ELSE reply.limit
           /\ \A i, j \in 1..Len(results) :
                  i < j => results[i].created_at >= results[j].created_at
           /\ \A j \in hits \ found, i \in 1..Len(results) :
                  memories[j].created_at <= results[i].created_at

\* C20: a search with the empty query is rejected as a validation error and
\* returns no records.
C20_EmptyQueryRejected ==
    (reply.op = "search" /\ reply.query = <<>>) =>
        /\ reply.status # 200
        /\ reply.results = <<>>

C22_AppendOnly ==
    [][\/ memories' = memories
       \/ /\ Len(memories') = Len(memories) + 1
          /\ \A i \in 1..Len(memories) : memories'[i] = memories[i]
          /\ \A i \in 1..Len(memories) : memories[i].id # memories'[Len(memories')].id
          /\ \/ posts' = posts + 1
             \/ \E s \in Streams : pc[s] = "insert" /\ pc'[s] # "insert"]_vars

C22_Witness ==
    /\ Len(memories) = 2
    /\ posts = 2
    /\ memories[1].text = memories[2].text
    /\ pc[1] = "done"
    /\ reply.op = "list"
    /\ Len(reply.results) = 1

\* C23: every connection a memory operation opens is closed when the
\* operation returns or raises: the open connections are those of the tool
\* handlers that stand between their SELECT and their INSERT, and none when
\* no operation is in progress.
C23_ConnectionsClosed ==
    /\ conns = Cardinality({s \in Streams : OpenConnections(s) = 1})
    /\ (\A s \in Streams : pc[s] # "insert") => conns = 0

C23_Witness ==
    /\ conns = 0
    /\ pc[1] = "done"
    /\ Len(memories) = 1
    /\ reply.op = "add" /\ reply.status = 500
    /\ \E i, j \in ResultsOf(1) :
          /\ "error" \in DOMAIN events[1][i] /\ events[1][i].error = "OperationalError"
          /\ IsSuccess(events[1][j])

\* the memory_search call reached its candidates
Searched == reply.op = "tool" /\ reply.tool = "memory_search" /\ reply.contacted # <<>>

\* the failure of candidate i as the error payload reports it
DetailsOf(i) == FailureOf(reply.answers[i])

\* C24 as stated: the candidates are contacted in their order, each at most
\* once, up to the first that answers HTTP 200, whose results are returned;
\* when none answers 200 all were contacted and the error payload, returned
\* and not raised, carries the failure of the last one.
C24_FirstHttp200Wins ==
    Searched =>
        LET n == Len(reply.candidates)
            ok == {i \in 1..n : reply.answers[i].kind = "response"
                                    /\ reply.answers[i].status = 200}
        IN /\ ~reply.raised
           /\ IF ok # {}
              THEN LET i == CHOOSE i \in ok : \A j \in ok : i <= j
                   IN /\ reply.contacted = SubSeq(reply.candidates, 1, i)
                      /\ "results" \in DOMAIN reply.result
                      /\ reply.result.results = reply.answers[i].body.results
              ELSE /\ reply.contacted = reply.candidates
                   /\ "error" \in DOMAIN reply.result
                   /\ reply.result.details = DetailsOf(n)

\* C24, amended: the candidates are contacted in their order, each at most
\* once, up to the first that answers HTTP 200 with a body that decodes to a
\* JSON object, whose results (none when the object has no results key) are
\* returned; a candidate fails by another status, by an exception of the
\* request, or by a 200 answer whose body is no JSON object, and when all
\* fail the error payload, returned and not raised, carries the failure of
\* the last one.
C24_FirstJsonObjectWins ==
    Searched =>
        LET n == Len(reply.candidates)
            ok == {i \in 1..n : reply.answers[i].kind = "response"
                                    /\ reply.answers[i].status = 200
                                    /\ reply.answers[i].body.form \notin {"array", "text"}}
        IN /\ ~reply.raised
           /\ IF ok # {}
              THEN LET i == CHOOSE i \in ok : \A j \in ok : i <= j
                   IN /\ reply.contacted = SubSeq(reply.candidates, 1, i)
                      /\ "results" \in DOMAIN reply.result
                      /\ "error" \notin DOMAIN reply.result
                      /\ reply.result.results = reply.answers[i].body.results
              ELSE /\ reply.contacted = reply.candidates
                   /\ "error" \in DOMAIN reply.result
                   /\ reply.result.error = SearchFailed
                   /\ reply.result.details = DetailsOf(n)

C24_Witness ==
    /\ Searched
    /\ reply.answers[1] = Answered(500, BodyText)
    /\ reply.answers[2] = Refused("ConnectError")
    /\ reply.contacted = reply.candidates
    /\ reply.result.details = <<"ConnectError">>

\* C25: a call of execute_custom_tool with a name of no client tool returns
\* the payload {error: "Unknown tool: <name>"}: it does not raise, contacts
\* no collaborator, opens no connection and leaves the store as it was.
C25_UnknownToolPayload ==
    (reply.op = "tool" /\ reply.tool \notin ClientTools) =>
        /\ ~reply.raised
        /\ reply.result = [error |-> <<"Unknown tool: ", reply.tool>>]
        /\ reply.contacted = <<>>
        /\ conns = 0
        /\ memories = <<>>

C25_Witness ==
    /\ reply.op = "tool"
    /\ reply.tool = "store_memory"
    /\ reply.arguments = [query |-> SStr(<<"a">>)]
    /\ reply.result = [error |-> <<"Unknown tool: ", "store_memory">>]

\* C26: the answer of POST chat is the terminal event of its stream: the
\* complete event of a stream that succeeded, the error event itself, with
\* its failure message, of a stream that ended with error.
C26_ChatReturnsTerminalEvent ==
    (reply.op = "chat" /\ pc[reply.stream] = "done") =>
        /\ reply.status = 200
        /\ reply.body = events[reply.stream][Len(events[reply.stream])]
        /\ "type" \in DOMAIN reply.body
        /\ Terminal(reply.body)

\* the history turns the session keeps
KeptTurns(history) ==
    {i \in 1..Len(history) : history[i].role \in {"user", "assistant"}}

\* C27: the messages of a session that was built are the policy, then the
\* system prompt if there is one, then the history turns of role user or
\* assistant, each once and in their order, and the user's query last.
C27_MessagesInOrder ==
    (reply.op = "session" /\ ~reply.raised) =>
        LET m == reply.messages
            h == reply.history
            p == IF reply.system_prompt # <<>> THEN 1 ELSE 0
            kept == KeptTurns(h)
        IN /\ Len(m) = 1 + p + Cardinality(kept) + 1
           /\ m[1] = SystemMessage(MemoryPolicy)
           /\ p = 1 => m[2] = SystemMessage(reply.system_prompt)
           /\ \A i \in kept :
                  m[1 + p + Cardinality({j \in kept : j <= i})] =
                      [role |-> h[i].role, content |-> h[i].content]
           /\ m[Len(m)] = UserMessage(reply.query)

C27_Witness ==
    /\ reply.op = "session"
    /\ reply.system_prompt = <<"p">>
    /\ reply.history = <<[role |-> "assistant", content |-> <<"b">>],
                         [role |-> "tool", content |-> <<"d">>],
                         [role |-> "user", content |-> <<"a">>]>>
    /\ Len(reply.messages) = 5

\* the stream's terminal event has been emitted
TerminalEmitted(s) ==
    /\ events[s] # <<>>
    /\ Terminal(events[s][Len(events[s])])

\* C28: a stream that has entered its loop, over a backend stream of finitely
\* many chunks and handlers that return or raise, eventually emits its
\* terminal event, whatever inline tool execution failed on the way.
C28_TerminalEventuallyEmitted ==
    \A s \in SoloStreams :
        (pc[s] \notin {"start", "raised"}) ~> TerminalEmitted(s)

C28_Witness ==
    /\ TerminalEmitted(1)
    /\ \E i, j \in ResultsOf(1) :
          /\ "error" \in DOMAIN events[1][i] /\ events[1][i].error = "OperationalError"
          /\ "result" \in DOMAIN events[1][j] /\ events[1][j].result = ErrorResult(TextRequired)

\* the thinking events among evs
ThinkingIn(evs) == {i \in 1..Len(evs) : evs[i].type = "thinking"}

\* no thinking event follows the stream's response_start, and every thinking
\* event carries the non-zero count of its chunk
ThinkingOnlyWhileThinking ==
    \A s \in Streams :
        \A i \in OfType(s, "thinking") :
            /\ events[s][i].tokens # 0
            /\ \A j \in OfType(s, "response_start") : i < j

\* pulling a chunk that reports zero reasoning tokens, or pulling any chunk
\* once is_thinking is false, adds no thinking event
QuietPull ==
    \A s \in Streams :
        (/\ pulled'[s] = pulled[s] + 1
         /\ response'[s].reasoning_tokens = 0 \/ ~is_thinking[s]) =>
            ThinkingIn(events'[s]) = ThinkingIn(events[s])

\* C29: thinking events are emitted only while the stream is Thinking: none
\* after response_start, whatever reasoning progress later chunks report, and
\* none for a chunk that reports zero reasoning tokens.
C29_ThinkingOnlyWhileThinking == []ThinkingOnlyWhileThinking /\ [][QuietPull]_vars

\* a chunk with reasoning progress and text, then a chunk with reasoning
\* progress again: one thinking event only
C29_Witness ==
    /\ pulled[1] = 2
    /\ response[1].bound /\ response[1].reasoning_tokens = 1
    /\ ~is_thinking[1]
    /\ Len(events[1]) >= 3
    /\ events[1][1].type = "thinking"
    /\ events[1][2].type = "response_start"
    /\ ThinkingIn(events[1]) = {1}
    /\ pc[1] = "done"

\* C30: in a stream that ended with complete, complete.tool_calls is the
\* sequence of the stream's tool_call events in the order of their emission,
\* one entry for every announced call: of a server-side tool or a client-side
\* one, executed, refused by the cap or failed.
C30_CompleteListsEveryCall ==
    \A s \in Streams :
        Completed(s) =>
            events[s][Len(events[s])].tool_calls = CallsIn(s, Len(events[s]))

\* a server-side call, a write that fails, a write that succeeds and a write
\* the cap refuses
C30_Witness ==
    /\ Completed(1)
    /\ max_writes[1] = 1
    /\ Len(events[1][Len(events[1])].tool_calls) = 4
    /\ events[1][1].type = "tool_call" /\ events[1][1].tool = "web_search"
    /\ events[1][2].type = "tool_call"
    /\ events[1][3].type = "tool_result" /\ IsFailure(events[1][3])
    /\ events[1][Len(events[1]) - 1].type = "tool_call"
    /\ SuccessesIn(1, Len(events[1])) = 1

\* the tool_call event e announces a memory write whose text is blank or
\* missing
FailsValidation(e) ==
    LET arguments == OrEmptyDict(DecodeArgs(e.arguments))
    IN arguments.jtype = "object" /\ AddText(arguments.dict) = <<>>

\* the results of stream s that answer a write failing validation
ValidationResults(s) ==
    {i \in ResultsOf(s) : i > 1 /\ events[s][i - 1].type = "tool_call"
                              /\ FailsValidation(events[s][i - 1])}

\* C31 as stated: the tool_result of an inline memory_add that fails
\* validation carries the failure in the event's error field and reports no
\* success.
C31_ValidationFailureInErrorField ==
    \A s \in Streams :
        \A i \in ValidationResults(s) :
            /\ "error" \in DOMAIN events[s][i]
            /\ ~IsSuccess(events[s][i])

\* C32: the usage of the complete event is the snapshot that came with the
\* last chunk pulled from the backend, whatever the snapshots of the chunks
\* before it were.
C32_UsageOfLastChunk ==
    \A s \in Streams :
        Completed(s) =>
            events[s][Len(events[s])].usage.reasoning_tokens = UsageWith(chunk[s].content)

\* two chunks with different snapshots
C32_Witness ==
    /\ Completed(1)
    /\ pulled[1] = 2
    /\ events[1][1] = ThinkingEvent(1)
    /\ chunk[1].content = <<"b">>
    /\ events[1][Len(events[1])].usage.reasoning_tokens = 2

\* a step that emits a tool_result advances writes by one when the result
\* reports success and leaves it alone otherwise; no other step changes it
\* once the stream has started
WritesCountSuccesses ==
    \A s \in Streams :
        pc[s] # "start" =>
            IF Len(events'[s]) = Len(events[s]) + 1
                  /\ events'[s][Len(events'[s])].type = "tool_result"
            THEN writes'[s] = writes[s] +
                     (IF IsSuccess(events'[s][Len(events'[s])]) THEN 1 ELSE 0)
            ELSE writes'[s] = writes[s]

\* a memory write announced while fewer than max_writes executions have
\* succeeded is executed, whatever failed before it
FailuresLeaveTheCap ==
    \A s \in Streams :
        \A i \in Positions(s) :
            (IsWrite(events[s][i]) /\ SuccessesIn(s, i) < max_writes[s]) =>
                IF i = Len(events[s]) THEN pc[s] \in {"execute", "insert"}
                ELSE events[s][i + 1].type = "tool_result"

\* C33: writes advances by exactly one for every inline memory_add whose
\* result reports success, a deduplicated one included, and not at all for an
\* error payload or an exception: a failed write leaves the cap as it was and
\* a later write is still executed.
C33_WritesCountsSuccessesOnly == []FailuresLeaveTheCap /\ [][WritesCountSuccesses]_vars

\* a write that fails, one that inserts and two that are deduplicated
C33_Witness ==
    /\ writes[1] = 3
    /\ \E i \in ResultsOf(1) : IsFailure(events[1][i]) /\ SuccessesIn(1, i) = 0
    /\ Cardinality({i \in ResultsOf(1) :
                       IsSuccess(events[1][i]) /\ "dedup" \in DOMAIN events[1][i].result}) = 2
    /\ Len(memories) = 1

\* C34: the row of every tool_result that reports an insert is in the store
\* from the moment the event is emitted and in every later state of the
\* stream, the states after a backend failure ended the stream with error and
\* after the consumer closed it included.
C34_InsertedRowsStay ==
    \A s \in Streams :
        \A i \in InsertedBy(s) :
            \E k \in 1..Len(memories) :
                /\ memories[k].id = events[s][i].result.id
                /\ memories[k].text # <<>>

\* a stream that inserted a row, ended with the backend's error and was then
\* closed by its consumer
C34_Witness ==
    /\ InsertedBy(1) # {}
    /\ events[1][Len(events[1])] = ErrorEvent("BackendError")
    /\ gen[1] = "closed"
    /\ Len(memories) = 1

\* the events a step adds to the log of stream s
NewEvents(s) == SubSeq(events'[s], Len(events[s]) + 1, Len(events'[s]))

\* the place of an event a step emits in the processing of the current chunk
InChunkOrder(s, e) ==
    LET calls == chunk[s].tool_calls
    IN CASE e.type = "thinking" ->
              /\ pulled'[s] = pulled[s] + 1
              /\ NewEvents(s) = <<e>>
         [] e.type = "tool_call" ->
              /\ pulled'[s] = pulled[s]
              /\ idx[s] <= Len(calls)
              /\ e = ToolCallEvent(calls[idx[s]])
              /\ \A j \in OfType(s, "tool_call") : events[s][j].id # e.id
         [] e.type = "tool_result" ->
              /\ pulled'[s] = pulled[s]
              /\ idx[s] <= Len(calls)
              /\ events[s] # <<>>
              /\ events[s][Len(events[s])] = ToolCallEvent(calls[idx[s]])
              /\ idx'[s] = idx[s] + 1
         [] e.type = "response_start" ->
              /\ pulled'[s] = pulled[s]
              /\ idx[s] > Len(calls)
              /\ chunk[s].content # <<>>
              /\ is_thinking[s] /\ ~is_thinking'[s]
         [] e.type = "content" ->
              /\ pulled'[s] = pulled[s]
              /\ idx[s] > Len(calls)
              /\ e.text = chunk[s].content
              /\ ~is_thinking[s]
         [] OTHER -> TRUE

\* within one chunk the position in its tool calls only advances, and
\* is_thinking, once false, stays false
ChunkAdvances(s) ==
    /\ pulled'[s] = pulled[s] => (chunk'[s] = chunk[s] /\ idx'[s] >= idx[s])
    /\ (pc[s] # "start" /\ ~is_thinking[s]) => ~is_thinking'[s]

\* C35: the events of one chunk come in the fixed order: thinking with the
\* pull, then each tool call in the order of its announcement with its
\* tool_result right behind it, then response_start at the first text, then
\* the content, which nothing of the chunk follows.
C35_ChunkEventOrder ==
    [][\A s \in Streams :
          /\ ChunkAdvances(s)
          /\ Len(NewEvents(s)) <= 1
          /\ \A k \in 1..Len(NewEvents(s)) : InChunkOrder(s, NewEvents(s)[k])]_vars

\* one chunk with reasoning progress, two tool calls and the first text
C35_Witness ==
    /\ pulled[1] = 1
    /\ Len(events[1]) = 6
    /\ events[1][1].type = "thinking"
    /\ events[1][2].type = "tool_call" /\ events[1][2].tool = "web_search"
    /\ events[1][3].type = "tool_call" /\ events[1][3].tool = "memory_add"
    /\ events[1][4].type = "tool_result"
    /\ events[1][5].type = "response_start"
    /\ events[1][6].type = "content"

\* the user the arguments of tool_call event e name, "default" when they name
\* none
UserOfCall(e) == AddUserId(OrEmptyDict(DecodeArgs(e.arguments)).dict)

\* C36: the user_id of the request leaves no trace in the stream: the row of
\* every inline memory_add is stored under the user_id of the call's
\* arguments, or under "default" when they carry none, and a user only the
\* request names appears in no row and in no result.
C36_RequestUserUnused ==
    \A s \in Streams :
        /\ \A i \in InsertedBy(s) :
               \E k \in 1..Len(memories) :
                   /\ memories[k].id = events[s][i].result.id
                   /\ memories[k].user_id = UserOfCall(events[s][i - 1])
        /\ \A k \in 1..Len(memories) : memories[k].user_id \in {Default, U1}
        /\ pending[s].user_id \in {<<>>, Default, U1}

\* a request of user U2 whose stream wrote for no user and for U1
C36_Witness ==
    /\ request_user_id[1] = U2
    /\ Completed(1)
    /\ Len(memories) = 2
    /\ {memories[1].user_id, memories[2].user_id} = {Default, U1}

\* the results of stream s that answer a memory write whose arguments are a
\* str that is not JSON
RawResults(s) ==
    {i \in ResultsOf(s) : i > 1 /\ events[s][i - 1].type = "tool_call"
                              /\ IsWrite(events[s][i - 1])
                              /\ events[s][i - 1].arguments.form = "text"}

\* a row of the store with this id, user and text
Stored(id, user, text) ==
    \E k \in 1..Len(memories) :
        memories[k].id = id /\ memories[k].user_id = user /\ memories[k].text = text

\* C37 as stated: the record of a write whose arguments are not JSON carries
\* the whole string as its text.
C37_RawStringStored ==
    \A s \in Streams :
        \A i \in RawResults(s) :
            IsSuccess(events[s][i]) =>
                Stored(events[s][i].result.id, Default, events[s][i - 1].arguments.chars)

\* C37, amended: a memory write whose arguments are a str that is not JSON is
\* executed with the string as its text: a blank string is answered with the
\* validation failure, any other string is not, and a result that reports
\* success names a record of user "default" whose text is the string without
\* its surrounding whitespace.
C37_RawStringStoredTrimmed ==
    \A s \in Streams :
        \A i \in RawResults(s) :
            LET raw == events[s][i - 1].arguments.chars
                e == events[s][i]
            IN /\ ("result" \in DOMAIN e /\ e.result = ErrorResult(TextRequired))
                      <=> Strip(raw) = <<>>
               /\ IsSuccess(e) => Stored(e.result.id, Default, Strip(raw))
               /\ "error" \in DOMAIN e => e.error = "OperationalError"

\* a padded string that is not JSON, stored without its padding
C37_Witness ==
    /\ \E i \in RawResults(1) :
          /\ events[1][i - 1].arguments.chars = <<" ", "a">>
          /\ IsSuccess(events[1][i])
          /\ "dedup" \notin DOMAIN events[1][i].result
    /\ Len(memories) = 1
    /\ memories[1].text = <<"a">> /\ memories[1].user_id = Default

\* the text and the user a tool_call event gives, as they are given
GivenText(e) == GetOr(OrEmptyDict(DecodeArgs(e.arguments)).dict, "text", <<>>)
GivenUser(e) == GetOr(OrEmptyDict(DecodeArgs(e.arguments)).dict, "user_id", Default)

\* the successful results of stream s before position j whose calls gave the
\* user of call j and another text that is the same once trimmed
TrimmedTwins(s, j) ==
    {i \in 2..(j - 1) :
        /\ IsSuccess(events[s][i])
        /\ GivenUser(events[s][i - 1]) = GivenUser(events[s][j - 1])
        /\ GivenText(events[s][i - 1]) # GivenText(events[s][j - 1])
        /\ Strip(GivenText(events[s][i - 1])) = Strip(GivenText(events[s][j - 1]))}

\* C38: the handler looks up and stores the trimmed text: of two sequential
\* calls for one user whose texts differ in surrounding whitespace only, the
\* second returns the id of the first with dedup true, and the store holds
\* one record for them, carrying the trimmed text.
C38_DedupOnTrimmedText ==
    \A s \in SoloStreams :
        \A j \in ResultsOf(s) :
            IsSuccess(events[s][j]) =>
                \A i \in TrimmedTwins(s, j) :
                    LET r == events[s][j].result
                        user == GivenUser(events[s][j - 1])
                        rows == {k \in 1..Len(memories) : memories[k].user_id = user
                                    /\ Strip(memories[k].text) = Strip(GivenText(events[s][j - 1]))}
                    IN /\ r = DedupResult(events[s][i].result.id)
                       /\ Cardinality(rows) = 1
                       /\ \A k \in rows : /\ memories[k].id = r.id
                                          /\ memories[k].text = Strip(memories[k].text)

\* the padded text first, stored trimmed; then the bare text, deduplicated
C38_Witness ==
    /\ Len(events[1]) >= 4
    /\ events[1][1].type = "tool_call" /\ GivenText(events[1][1]) = <<" ", "a", " ">>
    /\ events[1][2] = ToolResultEvent("memory_add", AddedResult(1))
    /\ events[1][3].type = "tool_call" /\ GivenText(events[1][3]) = <<"a">>
    /\ events[1][4] = ToolResultEvent("memory_add", DedupResult(1))
    /\ Len(memories) = 1 /\ memories[1].text = <<"a">>

====
